---- MODULE Spec2Model ----
(***************************************************************************)
(* tetraDX: the referral workflow of the medics application.               *)
(*                                                                         *)
(* The database tables are the variables, every REST handler is one        *)
(* action (Spec), and the create-referral handler is additionally split    *)
(* into its ORM calls so that concurrent requests and admin-site edits     *)
(* interleave with it (SpecCreate).  The referral lists are read over a    *)
(* table of stored referrals (SpecList), registration and login run over   *)
(* the User table (SpecAuth), and the facility admin's endpoints over the  *)
(* branches and their technicians (SpecFacility).  Two update-test-status  *)
(* requests are interleaved in SpecUpdate; the change-password endpoint    *)
(* (SpecPassword), the add-test-types endpoint (SpecTestTypes) and the     *)
(* user forms of the admin site (SpecAdmin) have a specification each.     *)
(***************************************************************************)
EXTENDS Integers, Sequences, FiniteSets, TLC

VARIABLES
    users,              \* User table: id -> the row (see NewUser)
    facilities,         \* Facility table: id -> [name, admin]
    branches,           \* FacilityBranch table: id -> [facility, name, is_active]
    branch_technicians, \* BranchTechnician table: set of [id, user, branch]
    test_types,         \* TestType table: id -> [facility, name]
    tests,              \* Test table: id -> [test_type, name]
    patients,           \* Patient table: sequence of [full_name_or_id]
    referrals,          \* Referral table: sequence of rows, primary key "id"
    referral_tests,     \* ReferralTest table: sequence of rows, pk = index
    now,                \* timezone.now(), a logical clock
    last,               \* the request handled last and its response
    procs               \* SpecCreate, SpecUpdate: the requests in flight

catalogVars == <<users, facilities, branches, branch_technicians, test_types, tests>>
dataVars == <<patients, referrals, referral_tests>>
vars == <<users, facilities, branches, branch_technicians, test_types, tests,
          patients, referrals, referral_tests, now, last, procs>>

----------------------------------------------------------------------------
(* Bounds of the model *)

\* timestamps handed out by timezone.now(): at most MaxNow writes per run
MaxNow == 3

----------------------------------------------------------------------------
(* Values *)

\* a NULL foreign key
NoId == 0
\* a NULL foreign key to User
NoUser == ""
\* a NULL DateTimeField
NoTime == -1

\* medics.models.TestStatus
PENDING == "Pending"
RECEIVED == "Received"
COMPLETED == "Completed"
TestStatus == {PENDING, RECEIVED, COMPLETED}

\* authentication.models.UserType
MEDICAL_PRACTITIONER == "Medical Practitioner"
LAB_TECHNICIAN == "Lab Technician"

\* request.data.get("status") when the body has no status
MissingStatus == "<missing>"
\* the status values a request may carry
StatusInputs == TestStatus \cup {"InvalidStatus", MissingStatus}

\* string.ascii_uppercase + string.digits
chars == <<"A","B","C","D","E","F","G","H","I","J","K","L","M","N","O","P","Q",
           "R","S","T","U","V","W","X","Y","Z","0","1","2","3","4","5","6","7",
           "8","9">>
\* k of random.choices(chars, k=10)
IdLength == 10
\* attempts of generate_referral_id
MaxAttempts == 100

\* one outcome of random.choices(chars, k=IdLength): IdLength characters of
\* chars, picked from the seed
RandomCode(seed) ==
    [i \in 1..IdLength |-> chars[((seed * 11 + i * (seed + 6)) % Len(chars)) + 1]]
\* "".join(random.choices(chars, k=10)): the outcomes the model draws from.
\* Once every one of them is stored, generate_referral_id can only give up,
\* which bounds the Referral table.
random_choices == {RandomCode(1)}

\* text (a Python str) is a sequence of one-character strings
Ann == <<"A", "n", "n">>
Bo == <<"B", "o">>
Tom == <<"T", "o", "m">>
Ada == <<"A", "d", "a">>
Eve == <<"E", "v", "e">>
Joe == <<"J", "o", "e">>
\* a password that validate_strong_password accepts
Pass123 == <<"P", "a", "s", "s", "1", "2", "3", "!">>

\* string.ascii_uppercase, string.ascii_lowercase
ascii_uppercase == <<"A","B","C","D","E","F","G","H","I","J","K","L","M","N","O","P",
                     "Q","R","S","T","U","V","W","X","Y","Z">>
ascii_lowercase == <<"a","b","c","d","e","f","g","h","i","j","k","l","m","n","o","p",
                     "q","r","s","t","u","v","w","x","y","z">>

\* str.lower() on one character
lower_char(c) ==
    IF \E i \in 1..Len(ascii_uppercase) : ascii_uppercase[i] = c
    THEN ascii_lowercase[CHOOSE i \in 1..Len(ascii_uppercase) : ascii_uppercase[i] = c]
    ELSE c
\* str.lower()
lower(text) == [i \in 1..Len(text) |-> lower_char(text[i])]
\* str.replace(" ", "")
RECURSIVE remove_spaces(_)
remove_spaces(text) ==
    IF text = <<>> THEN <<>>
    ELSE IF Head(text) = " " THEN remove_spaces(Tail(text))
    ELSE <<Head(text)>> \o remove_spaces(Tail(text))

\* User.save: the username is the full name without spaces, in lower case
username_of(full_name) == lower(remove_spaces(full_name))

\* make_password: the stored form of a raw password
make_password(raw) == [algorithm |-> "pbkdf2_sha256", of |-> raw]
\* User.check_password
check_password(user, raw) == user.password = make_password(raw)

\* the row of a user that User.objects.create and set_password store: the
\* model's defaults for is_active, is_superuser and last_login
NewUser(full_name, phone_number, user_type, password) ==
    [full_name |-> full_name, username |-> username_of(full_name),
     phone_number |-> phone_number, user_type |-> user_type,
     password |-> make_password(password), last_login |-> NoTime,
     is_active |-> TRUE, is_superuser |-> FALSE]

\* the users whose requests Spec handles
UserIds == {"dr_a", "dr_b", "tech", "adm"}
\* ids a request may name for a branch (3 names no branch)
BranchIdInputs == {1, 2, 3}
\* "tests" lists of a create-referral request: empty, tests of facility 1
\* (1, 2), of facility 2 (3), of no facility (4, 5), unknown (9), repeated
TestsInputs == {<<>>, <<1>>, <<2, 1>>, <<2, 2>>, <<3>>, <<3, 1>>, <<9>>, <<9, 2>>,
                <<4, 5>>, <<5, 1>>}
PatientInputs == {Joe}

Range(s) == {s[i] : i \in DOMAIN s}

\* a response of the API: the endpoint, the HTTP status, the message and the
\* id of the referral whose data the body carries (<<>> when it carries none)
Response(op, code, detail, data) ==
    [op |-> op, code |-> code, detail |-> detail, data |-> data]
NoResponse == Response("none", NoId, "", <<>>)

\* the create-referral requests that SpecCreate runs concurrently
Procs == {"p1", "p2"}
\* a create-referral request that has not started: where it is (pc), its
\* input, what validate found, the patient and the id it got, whether its
\* Referral row is stored, the tests still to create and the HTTP status
IdleProc == [pc |-> "idle", user |-> "", branch |-> NoId, tests |-> <<>>,
             name |-> "", validated |-> {}, patient |-> NoId, code |-> <<>>,
             stored |-> FALSE, todo |-> <<>>, status |-> NoId]

----------------------------------------------------------------------------
(* The tables after the fixtures are loaded *)

\* the users: two practitioners, a technician of branch 1, the admin of
\* facility 1 (assigned to no branch) and the admin of facility 2 (assigned
\* to branch 2)
InitUsers ==
    ("dr_a" :> NewUser(Ann, "0201", MEDICAL_PRACTITIONER, Pass123))
    @@ ("dr_b" :> NewUser(Bo, "0202", MEDICAL_PRACTITIONER, Pass123))
    @@ ("tech" :> NewUser(Tom, "0203", LAB_TECHNICIAN, Pass123))
    @@ ("adm" :> NewUser(Ada, "0204", LAB_TECHNICIAN, Pass123))
    @@ ("adm_b" :> NewUser(Eve, "0205", LAB_TECHNICIAN, Pass123))

\* the facilities, their branches and their catalog of tests
InitFacilities ==
    /\ facilities = (1 :> [name |-> <<"L", "a", "b">>, admin |-> "adm"])
                    @@ (2 :> [name |-> <<"M", "e", "d">>, admin |-> "adm_b"])
    /\ branches = (1 :> [facility |-> 1, name |-> <<"M", "a", "i", "n">>,
                         is_active |-> TRUE])
                  @@ (2 :> [facility |-> 2, name |-> <<"E", "a", "s", "t">>,
                            is_active |-> TRUE])
    /\ test_types = (1 :> [facility |-> 1, name |-> <<"B", "l", "o", "o", "d">>])
                    @@ (2 :> [facility |-> 2, name |-> <<"S", "c", "a", "n">>])
                    @@ (3 :> [facility |-> NoId, name |-> <<"O", "l", "d">>])
    /\ tests = (1 :> [test_type |-> 1, name |-> <<"C", "B", "C">>])
               @@ (2 :> [test_type |-> 1, name |-> <<"E", "S", "R">>])
               @@ (3 :> [test_type |-> 2, name |-> <<"M", "R", "I">>])
               @@ (4 :> [test_type |-> 3, name |-> <<"X">>])
               @@ (5 :> [test_type |-> NoId, name |-> <<"Y">>])

\* the catalog, and the technicians assigned to the branches
InitCatalog ==
    /\ InitFacilities
    /\ branch_technicians = {[id |-> 1, user |-> "tech", branch |-> 1],
                             [id |-> 2, user |-> "adm_b", branch |-> 2]}

Init ==
    /\ users = InitUsers
    /\ InitCatalog
    /\ patients = <<>>
    /\ referrals = <<>>
    /\ referral_tests = <<>>
    /\ now = 0
    /\ last = NoResponse
    /\ procs = [p \in Procs |-> IdleProc]

----------------------------------------------------------------------------
(* Queries *)

\* Referral.objects.filter(id=code).exists()
ReferralExists(code) == \E i \in 1..Len(referrals) : referrals[i].id = code

\* the position of the row Referral.objects.get(id=code) returns
ReferralIndex(code) == CHOOSE i \in 1..Len(referrals) : referrals[i].id = code

\* the elements of a finite set of integers, in increasing order
RECURSIVE SortedSeq(_)
SortedSeq(S) ==
    IF S = {} THEN <<>>
    ELSE LET m == CHOOSE x \in S : \A y \in S : x <= y
         IN  <<m>> \o SortedSeq(S \ {m})

\* FilterTests if the filter on the facility were missing
FilterTests_any_facility(ids, facility) == {t \in DOMAIN tests : t \in Range(ids)}

\* Test.objects.filter(id__in=ids, test_type__facility=facility), for a
\* facility that is not NULL: the join drops a test without a test type and
\* a test type without a facility
FilterTests(ids, facility) ==
    {t \in DOMAIN tests :
        /\ t \in Range(ids)
        /\ tests[t].test_type # NoId
        /\ test_types[tests[t].test_type].facility = facility}

----------------------------------------------------------------------------
(* The permission checks *)

\* referral.referred_by == user
is_doctor(referral, user) == referral.referred_by = user

\* BranchTechnician.objects.filter(branch=branch, user=user).exists()
is_facility_worker(branch, user) ==
    \E bt \in branch_technicians : bt.branch = branch /\ bt.user = user

\* branch.facility.admin == user
is_facility_admin(branch, user) == facilities[branches[branch].facility].admin = user

\* referral_permission if the facility admin were left out
referral_permission_without_admin(referral, user) ==
    \/ is_doctor(referral, user)
    \/ is_facility_worker(referral.facility_branch, user)

\* the condition under which referral_permission_required calls the view
referral_permission(referral, user) ==
    \/ is_doctor(referral, user)
    \/ is_facility_worker(referral.facility_branch, user)
    \/ is_facility_admin(referral.facility_branch, user)

\* test_status_permission if it were the check of referral_permission_required
test_status_permission_with_admin(referral, user) == referral_permission(referral, user)

\* the condition under which UpdateTestStatusView.put goes on
test_status_permission(referral, user) ==
    is_doctor(referral, user) \/ is_facility_worker(referral.facility_branch, user)

----------------------------------------------------------------------------
(* The status updates *)

\* valid_statuses if the membership test let every value through
valid_statuses_unchecked == StatusInputs

\* [test_status.value for test_status in models.TestStatus]
valid_statuses == {PENDING, RECEIVED, COMPLETED}

\* already_in_state if the comparison with the current status were missing
already_in_state_never(referral_test, new_status) == FALSE

\* already_in_state if the view also refused a move that is not the next
\* step of Pending -> Received -> Completed
already_in_state_or_not_next(referral_test, new_status) ==
    \/ referral_test.status = new_status
    \/ <<referral_test.status, new_status>> \notin {<<PENDING, RECEIVED>>,
                                                    <<RECEIVED, COMPLETED>>}

\* referral_test.status == new_status
already_in_state(referral_test, new_status) == referral_test.status = new_status

\* ReferralTest.clean: the test's type must belong to the facility of the
\* referral's branch; skipped when the branch or the test type is NULL
clean(referral, test) ==
    IF referral.facility_branch # NoId /\ tests[test].test_type # NoId
    THEN test_types[tests[test].test_type].facility
            = branches[referral.facility_branch].facility
    ELSE TRUE

\* set_test_status if completed_at were assigned for every new status
set_test_status_always_completes(rt, new_status, t) ==
    [rt EXCEPT !.status = new_status, !.completed_at = t, !.updated_at = t]

\* UpdateTestStatusView.put, "Update status": the fields assigned on the
\* ReferralTest instance, and updated_at (auto_now) set by save()
set_test_status(rt, new_status, t) ==
    [rt EXCEPT !.status = new_status,
               !.completed_at = IF new_status = COMPLETED THEN t ELSE @,
               !.updated_at = t]

\* referral_after_test_update if the view saved the referral as well
referral_after_test_update_saved(referral, t) == [referral EXCEPT !.updated_at = t]

\* the Referral row after UpdateTestStatusView.put: referral.updated_at is
\* assigned on the instance in memory, and only referral_test is saved
referral_after_test_update(referral, t) == referral

\* UpdateReferralStatusSerializer.validate: the error, or "" when valid
validate_referral_status(status, referral_id) ==
    IF status \notin valid_statuses THEN "Invalid status value."
    ELSE IF ~ReferralExists(referral_id) THEN "Referral with the given ID does not exist."
    ELSE ""

\* UpdateReferralStatusSerializer.update: the fields assigned and saved
update_referral_status(instance, status, t) ==
    [instance EXCEPT !.status = status,
                     !.updated_at = t,
                     !.completed_at = IF status = COMPLETED THEN t ELSE @]

\* the ReferralTest rows after UpdateReferralStatusSerializer.update
tests_after_referral_update(rts, referral_id) == rts

----------------------------------------------------------------------------
(* Creating a referral *)

\* the outcomes of generate_referral_id: a code drawn in one of the
\* MaxAttempts attempts that no Referral has, or <<>> (the exception raised)
\* when every attempt draws the id of a stored Referral
generate_referral_id ==
    {code \in random_choices : MaxAttempts > 0 /\ ~ReferralExists(code)}
    \cup (IF \A attempts \in 0..(MaxAttempts - 1) :
                \E code \in random_choices : ReferralExists(code)
          THEN {<<>>}
          ELSE {})

\* Patient.objects.get_or_create(full_name_or_id=name): the table afterwards
patient_get_or_create(name) ==
    IF \E i \in 1..Len(patients) : patients[i].full_name_or_id = name
    THEN patients
    ELSE Append(patients, [full_name_or_id |-> name])

\* the pk of the patient that get_or_create returns
patient_pk(name) ==
    IF \E i \in 1..Len(patients) : patients[i].full_name_or_id = name
    THEN CHOOSE i \in 1..Len(patients) : patients[i].full_name_or_id = name
    ELSE Len(patients) + 1

\* the row Referral.objects.create(...) builds, with the field defaults
new_referral(code, branch, patient, user, t) ==
    [id |-> code, facility_branch |-> branch, patient |-> patient,
     referred_by |-> user, status |-> PENDING, referred_at |-> t,
     updated_at |-> t, completed_at |-> NoTime]

\* referral_insert_ok if Referral.id were not a primary key
referral_insert_unchecked(rows, row) == TRUE

\* the primary key of Referral: an INSERT of a stored id is an IntegrityError
referral_insert_ok(rows, row) == \A i \in 1..Len(rows) : rows[i].id # row.id

\* new_referral_test if the default of ReferralTest.status were Received
new_referral_test_received(referral, test, t) ==
    [referral |-> referral.id, test |-> test, status |-> RECEIVED,
     created_at |-> t, updated_at |-> t, completed_at |-> NoTime]

\* the row ReferralTest.objects.create(referral=, test=) builds
new_referral_test(referral, test, t) ==
    [referral |-> referral.id, test |-> test, status |-> PENDING,
     created_at |-> t, updated_at |-> t, completed_at |-> NoTime]

\* ReferralTest.save (clean) and unique_together on INSERT
referral_test_insert_ok(rts, referral, test) ==
    /\ clean(referral, test)
    /\ \A i \in 1..Len(rts) : ~(rts[i].referral = referral.id /\ rts[i].test = test)

\* the loop of CreateReferralSerializer.create over the validated tests: the
\* rows stored when it ends or when a create raises (nothing is rolled back)
RECURSIVE create_referral_tests(_, _, _, _)
create_referral_tests(rts, referral, todo, t) ==
    IF todo = <<>> THEN [rows |-> rts, ok |-> TRUE]
    ELSE IF ~referral_test_insert_ok(rts, referral, Head(todo))
         THEN [rows |-> rts, ok |-> FALSE]
         ELSE create_referral_tests(Append(rts, new_referral_test(referral, Head(todo), t)),
                                    referral, Tail(todo), t)

\* validate_create_referral if only an empty "tests" list were refused
validate_create_referral_nonempty(branch_id, test_ids) ==
    IF branch_id \notin DOMAIN branches THEN "facility_id"
    ELSE IF test_ids = <<>> THEN "test_id"
    ELSE ""

\* CreateReferralSerializer.validate: the error, or "" when valid
validate_create_referral(branch_id, test_ids) ==
    IF branch_id \notin DOMAIN branches THEN "facility_id"
    ELSE IF FilterTests(test_ids, branches[branch_id].facility) = {} THEN "test_id"
    ELSE ""

\* CreateReferralView.post and CreateReferralSerializer.create
CreateReferral(user, branch_id, test_ids, name) ==
    /\ UNCHANGED <<catalogVars, procs>>
    /\ IF users[user].user_type # MEDICAL_PRACTITIONER
       THEN /\ last' = Response("create_referral", 400,
                                "Only medical practitioners can create referrals.", <<>>)
            /\ UNCHANGED <<dataVars, now>>
       ELSE IF validate_create_referral(branch_id, test_ids) # ""
       THEN /\ last' = Response("create_referral", 400,
                                validate_create_referral(branch_id, test_ids), <<>>)
            /\ UNCHANGED <<dataVars, now>>
       ELSE /\ now < MaxNow
            /\ now' = now + 1
            /\ patients' = patient_get_or_create(name)
            /\ \E code \in generate_referral_id :
                 IF code = <<>>
                 THEN /\ last' = Response("create_referral", 500,
                                          "Could not generate unique referral ID", <<>>)
                      /\ UNCHANGED <<referrals, referral_tests>>
                 ELSE LET referral == new_referral(code, branch_id, patient_pk(name), user, now)
                          todo == SortedSeq(FilterTests(test_ids, branches[branch_id].facility))
                          made == create_referral_tests(referral_tests, referral, todo, now)
                      IN  /\ referral_insert_ok(referrals, referral)
                          /\ referrals' = Append(referrals, referral)
                          /\ referral_tests' = made.rows
                          /\ last' = IF made.ok
                                     THEN Response("create_referral", 201,
                                                   "Referral created successfully", code)
                                     ELSE Response("create_referral", 500,
                                                   "ValidationError", <<>>)

----------------------------------------------------------------------------
(* Reading and updating a referral *)

\* referral_permission_required if it raised api_exception and not
\* PermissionDenied
referral_permission_required_api_exception(user, referral_id) ==
    IF ~ReferralExists(referral_id)
    THEN Response("referral", 400, "Referral does not exist.", <<>>)
    ELSE IF ~referral_permission(referrals[ReferralIndex(referral_id)], user)
    THEN Response("referral", 400,
                  "You do not have permission to view or update this referral.", <<>>)
    ELSE NoResponse

\* referral_permission_required: the response that ends the request before
\* the view runs, or NoResponse when the view is called
referral_permission_required(user, referral_id) ==
    IF ~ReferralExists(referral_id)
    THEN Response("referral", 400, "Referral does not exist.", <<>>)
    ELSE IF ~referral_permission(referrals[ReferralIndex(referral_id)], user)
    THEN Response("referral", 403,
                  "You do not have permission to view or update this referral.", <<>>)
    ELSE NoResponse

\* GetAndUpdateReferralView.get
GetReferral(user, referral_id) ==
    /\ UNCHANGED <<catalogVars, dataVars, now, procs>>
    /\ last' = IF referral_permission_required(user, referral_id) # NoResponse
               THEN [referral_permission_required(user, referral_id) EXCEPT !.op = "get_referral"]
               ELSE Response("get_referral", 200, "Referral retrieved successfully",
                             referral_id)

\* GetAndUpdateReferralView.put
UpdateReferralStatus(user, referral_id, status) ==
    /\ UNCHANGED <<catalogVars, patients, procs>>
    /\ IF referral_permission_required(user, referral_id) # NoResponse
       THEN /\ last' = [referral_permission_required(user, referral_id)
                            EXCEPT !.op = "update_referral"]
            /\ UNCHANGED <<referrals, referral_tests, now>>
       ELSE IF status = MissingStatus
       THEN /\ last' = Response("update_referral", 400, "This field is required.", <<>>)
            /\ UNCHANGED <<referrals, referral_tests, now>>
       ELSE IF validate_referral_status(status, referral_id) # ""
       THEN /\ last' = Response("update_referral", 400,
                                validate_referral_status(status, referral_id), <<>>)
            /\ UNCHANGED <<referrals, referral_tests, now>>
       ELSE /\ now < MaxNow
            /\ now' = now + 1
            /\ referrals' = [referrals EXCEPT ![ReferralIndex(referral_id)] =
                                update_referral_status(@, status, now)]
            /\ referral_tests' = tests_after_referral_update(referral_tests, referral_id)
            /\ last' = Response("update_referral", 200,
                                "Referral status updated successfully", referral_id)

----------------------------------------------------------------------------
(* Updating the status of one test of a referral *)

\* UpdateTestStatusView.put: the error that ends the request, or "" when the
\* status is updated
test_status_error(user, referral_test_id, new_status) ==
    IF referral_test_id \notin 1..Len(referral_tests)
    THEN "Referral test with the given ID does not exist."
    ELSE LET referral_test == referral_tests[referral_test_id]
             referral == referrals[ReferralIndex(referral_test.referral)]
         IN  IF ~test_status_permission(referral, user)
             THEN "You do not have permission to update this test status."
             ELSE IF new_status \notin valid_statuses
             THEN "Invalid status value."
             ELSE IF already_in_state(referral_test, new_status)
             THEN "The test is already in that state."
             ELSE ""

\* UpdateTestStatusView.put
UpdateTestStatus(user, referral_test_id, new_status) ==
    /\ UNCHANGED <<catalogVars, patients, procs>>
    /\ IF test_status_error(user, referral_test_id, new_status) # ""
       THEN /\ last' = Response("update_test_status", 400,
                                test_status_error(user, referral_test_id, new_status), <<>>)
            /\ UNCHANGED <<referrals, referral_tests, now>>
       ELSE LET referral_test == referral_tests[referral_test_id]
                i == ReferralIndex(referral_test.referral)
            IN  /\ now < MaxNow
                /\ now' = now + 1
                /\ IF clean(referrals[i], referral_test.test)
                   THEN /\ referral_tests' = [referral_tests EXCEPT ![referral_test_id] =
                                                 set_test_status(@, new_status, now)]
                        /\ referrals' = [referrals EXCEPT ![i] =
                                            referral_after_test_update(@, now)]
                        /\ last' = Response("update_test_status", 200,
                                            "Test status updated successfully",
                                            referral_test.referral)
                   ELSE /\ UNCHANGED <<referrals, referral_tests>>
                        /\ last' = Response("update_test_status", 500, "ValidationError", <<>>)

----------------------------------------------------------------------------
(* The requests of the API, one at a time *)

\* referral ids a request may name: stored or not
ReferralIdInputs == random_choices \cup {RandomCode(2)}
\* referral-test ids a request may name: stored, or one past the last row
ReferralTestIdInputs == 1..(Len(referral_tests) + 1)

CreateReferralStep ==
    \E user \in UserIds, branch_id \in BranchIdInputs,
       test_ids \in TestsInputs, name \in PatientInputs :
        CreateReferral(user, branch_id, test_ids, name)

GetReferralStep ==
    \E user \in UserIds, referral_id \in ReferralIdInputs :
        GetReferral(user, referral_id)

UpdateReferralStatusStep ==
    \E user \in UserIds, referral_id \in ReferralIdInputs, status \in StatusInputs :
        UpdateReferralStatus(user, referral_id, status)

UpdateTestStatusStep ==
    \E user \in UserIds, referral_test_id \in ReferralTestIdInputs,
       new_status \in StatusInputs :
        UpdateTestStatus(user, referral_test_id, new_status)

Next ==
    \/ CreateReferralStep
    \/ GetReferralStep
    \/ UpdateReferralStatusStep
    \/ UpdateTestStatusStep

Spec == Init /\ [][Next]_vars

----------------------------------------------------------------------------
(* Concurrent create-referral requests: one action per ORM call of          *)
(* CreateReferralView.post and CreateReferralSerializer.create, which run   *)
(* in autocommit mode, interleaved with an edit on the admin site.          *)

\* the inputs of the concurrent requests
ConcUserInputs == {"dr_a", "tech"}
ConcBranchInputs == {1, 3}
ConcTestsInputs == {<<2, 1>>, <<3>>}
\* the test types and facilities the admin site edit chooses from
AdminTestTypeInputs == {1}
AdminFacilityInputs == {1, 2}

\* the request ends with the given HTTP status
Finish(p, code) == procs' = [procs EXCEPT ![p].pc = "done", ![p].status = code]

\* CreateReferralView.post up to serializer.is_valid()
Post(p, user, branch_id, test_ids, name) ==
    /\ procs[p].pc = "idle"
    /\ UNCHANGED <<catalogVars, dataVars, now, last>>
    /\ IF users[user].user_type # MEDICAL_PRACTITIONER
          \/ validate_create_referral(branch_id, test_ids) # ""
       THEN Finish(p, 400)
       ELSE procs' = [procs EXCEPT ![p] =
                        [@ EXCEPT !.pc = "patient_get", !.user = user,
                                  !.branch = branch_id, !.tests = test_ids,
                                  !.name = name,
                                  !.validated = FilterTests(test_ids,
                                                    branches[branch_id].facility)]]

\* Patient.objects.get_or_create: the SELECT
PatientGet(p) ==
    /\ procs[p].pc = "patient_get"
    /\ UNCHANGED <<catalogVars, dataVars, now, last>>
    /\ LET found == {i \in 1..Len(patients) : patients[i].full_name_or_id = procs[p].name}
       IN  IF found = {} THEN procs' = [procs EXCEPT ![p].pc = "patient_create"]
           ELSE IF Cardinality(found) > 1 THEN Finish(p, 500)
           ELSE procs' = [procs EXCEPT ![p].pc = "generate",
                                       ![p].patient = CHOOSE i \in found : TRUE]

\* Patient.objects.get_or_create: the INSERT after the SELECT found nothing
PatientCreate(p) ==
    /\ procs[p].pc = "patient_create"
    /\ UNCHANGED <<catalogVars, referrals, referral_tests, now, last>>
    /\ patients' = Append(patients, [full_name_or_id |-> procs[p].name])
    /\ procs' = [procs EXCEPT ![p].pc = "generate", ![p].patient = Len(patients) + 1]

\* the default of Referral.id: generate_referral_id()
Generate(p) ==
    /\ procs[p].pc = "generate"
    /\ UNCHANGED <<catalogVars, dataVars, now, last>>
    /\ \E code \in generate_referral_id :
         IF code = <<>> THEN Finish(p, 500)
         ELSE procs' = [procs EXCEPT ![p].pc = "insert", ![p].code = code]

\* Referral.objects.create: the INSERT
InsertReferral(p) ==
    /\ procs[p].pc = "insert"
    /\ UNCHANGED <<catalogVars, patients, referral_tests, last>>
    /\ LET referral == new_referral(procs[p].code, procs[p].branch, procs[p].patient,
                                    procs[p].user, now)
       IN  IF referral_insert_ok(referrals, referral)
           THEN /\ referrals' = Append(referrals, referral)
                /\ now' = now + 1
                /\ procs' = [procs EXCEPT ![p].pc = "query_tests", ![p].stored = TRUE]
           ELSE /\ UNCHANGED <<referrals, now>>
                /\ Finish(p, 500)

\* "for test in tests": the lazy queryset of validate is evaluated
QueryTests(p) ==
    /\ procs[p].pc = "query_tests"
    /\ UNCHANGED <<catalogVars, dataVars, now, last>>
    /\ procs' = [procs EXCEPT ![p].pc = "create_test",
                              ![p].todo = SortedSeq(FilterTests(procs[p].tests,
                                              branches[procs[p].branch].facility))]

\* one iteration: ReferralTest.objects.create, or the response after the last
CreateTest(p) ==
    /\ procs[p].pc = "create_test"
    /\ UNCHANGED <<catalogVars, patients, referrals, last>>
    /\ LET referral == referrals[ReferralIndex(procs[p].code)]
       IN  IF procs[p].todo = <<>>
           THEN /\ UNCHANGED <<referral_tests, now>>
                /\ Finish(p, 201)
           ELSE IF referral_test_insert_ok(referral_tests, referral, Head(procs[p].todo))
           THEN /\ referral_tests' = Append(referral_tests,
                                        new_referral_test(referral, Head(procs[p].todo), now))
                /\ now' = now + 1
                /\ procs' = [procs EXCEPT ![p].todo = Tail(@)]
           ELSE /\ UNCHANGED <<referral_tests, now>>
                /\ Finish(p, 500)

\* TestTypeAdmin: the change form of a test type saves another facility
AdminChangeTestType(test_type, facility) ==
    /\ test_types[test_type].facility # facility
    /\ test_types' = [test_types EXCEPT ![test_type].facility = facility]
    /\ UNCHANGED <<users, facilities, branches, branch_technicians, tests,
                   dataVars, now, last, procs>>

PostStep ==
    \E p \in Procs, user \in ConcUserInputs, branch_id \in ConcBranchInputs,
       test_ids \in ConcTestsInputs, name \in PatientInputs :
        Post(p, user, branch_id, test_ids, name)
PatientGetStep == \E p \in Procs : PatientGet(p)
PatientCreateStep == \E p \in Procs : PatientCreate(p)
GenerateStep == \E p \in Procs : Generate(p)
InsertReferralStep == \E p \in Procs : InsertReferral(p)
QueryTestsStep == \E p \in Procs : QueryTests(p)
CreateTestStep == \E p \in Procs : CreateTest(p)
AdminChangeTestTypeStep ==
    \E test_type \in AdminTestTypeInputs, facility \in AdminFacilityInputs :
        AdminChangeTestType(test_type, facility)

NextCreate ==
    \/ PostStep
    \/ PatientGetStep
    \/ PatientCreateStep
    \/ GenerateStep
    \/ InsertReferralStep
    \/ QueryTestsStep
    \/ CreateTestStep
    \/ AdminChangeTestTypeStep

SpecCreate == Init /\ [][NextCreate]_vars

----------------------------------------------------------------------------
(* The referral lists of a practitioner and of a technician *)

\* the defaults of request.GET.get("page_number", 1) and ("page_size", 10)
DefaultPageNumber == 1
DefaultPageSize == 10

\* request.GET.get(name, default): a query parameter is <<>> when the request
\* has none and <<value>> otherwise
query_param(param, default) == IF param = <<>> THEN default ELSE param[1]

\* filter_rows if the WHERE clause were dropped
filter_rows_all(rows, kept) == rows

\* QuerySet.filter: the rows of a table (a sequence) that are in the set
\* kept, in table order
filter_rows(rows, kept) == SelectSeq(rows, LAMBDA row : row \in kept)

\* needle is a substring of haystack
contains(haystack, needle) ==
    \E i \in 0..(Len(haystack) - Len(needle)) :
        SubSeq(haystack, i + 1, i + Len(needle)) = needle
\* the lookup "__icontains"
icontains(haystack, needle) == contains(lower(haystack), lower(needle))

\* the Q(...) | Q(...) filter of the two list views on one Referral row
search_filter(referral, search_query) ==
    \/ icontains(patients[referral.patient].full_name_or_id, search_query)
    \/ icontains(branches[referral.facility_branch].name, search_query)
    \/ icontains(facilities[branches[referral.facility_branch].facility].name,
                 search_query)
    \/ icontains(users[referral.referred_by].full_name, search_query)
    \/ \E i \in 1..Len(referral_tests) :
         /\ referral_tests[i].referral = referral.id
         /\ \/ icontains(tests[referral_tests[i].test].name, search_query)
            \/ /\ tests[referral_tests[i].test].test_type # NoId
               /\ icontains(test_types[tests[referral_tests[i].test].test_type].name,
                            search_query)

\* str < str, by the code points of the letters and the space
code_point(c) ==
    IF c = " " THEN 0
    ELSE IF \E i \in 1..Len(ascii_uppercase) : ascii_uppercase[i] = c
    THEN CHOOSE i \in 1..Len(ascii_uppercase) : ascii_uppercase[i] = c
    ELSE Len(ascii_uppercase)
            + (CHOOSE i \in 1..Len(ascii_lowercase) : ascii_lowercase[i] = c)
RECURSIVE text_less(_, _)
text_less(a, b) ==
    IF b = <<>> THEN FALSE
    ELSE IF a = <<>> THEN TRUE
    ELSE IF Head(a) # Head(b) THEN code_point(Head(a)) < code_point(Head(b))
    ELSE text_less(Tail(a), Tail(b))

\* order_by: the rows sorted so that x comes before y when <<x, y>> is in
\* the set before; rows that neither precedes keep their table order
order_by(rows, before) ==
    LET position(i) ==
            1 + Cardinality({j \in 1..Len(rows) :
                                \/ <<rows[j], rows[i]>> \in before
                                \/ <<rows[i], rows[j]>> \notin before /\ j < i})
    IN  [k \in 1..Len(rows) |-> rows[CHOOSE i \in 1..Len(rows) : position(i) = k]]

\* order_by("-referred_at") and order_by("referred_at"): the pairs <<x, y>>
\* of rows with x before y
newest_first(rows) ==
    {p \in Range(rows) \X Range(rows) : p[1].referred_at > p[2].referred_at}
oldest_first(rows) ==
    {p \in Range(rows) \X Range(rows) : p[1].referred_at < p[2].referred_at}
\* order_by("-referred_by__full_name") and order_by("referred_by__full_name")
doctor_descending(rows) ==
    {p \in Range(rows) \X Range(rows) :
        text_less(users[p[2].referred_by].full_name, users[p[1].referred_by].full_name)}
doctor_ascending(rows) ==
    {p \in Range(rows) \X Range(rows) :
        text_less(users[p[1].referred_by].full_name, users[p[2].referred_by].full_name)}

\* math.ceil(a / b) for b > 0
ceil_div(a, b) == (a + b - 1) \div b

\* Paginator.num_pages (orphans = 0, allow_empty_first_page = True)
num_pages(count, per_page) ==
    LET hits == IF count > 1 THEN count ELSE 1 IN ceil_div(hits, per_page)

\* Paginator.validate_number raises EmptyPage
empty_page(number, count, per_page) ==
    \/ number < 1
    \/ number > num_pages(count, per_page) /\ number # 1

\* Paginator.page(number): the slice object_list[bottom:top]
page(object_list, number, per_page) ==
    LET bottom == (number - 1) * per_page
        top == IF bottom + per_page >= Len(object_list) THEN Len(object_list)
               ELSE bottom + per_page
    IN  SubSeq(object_list, bottom + 1, top)

\* paginate if total_referrals were the number of rows of the page
paginate_counting_page(object_list, page_number, page_size) ==
    LET count == Len(object_list)
        number == IF empty_page(page_number, count, page_size)
                  THEN num_pages(count, page_size) ELSE page_number
    IN  [referrals |-> [i \in DOMAIN page(object_list, number, page_size) |->
                            page(object_list, number, page_size)[i].id],
         current_page |-> number,
         page_size |-> page_size,
         total_pages |-> num_pages(count, page_size),
         total_referrals |-> Len(page(object_list, number, page_size)),
         has_next |-> number < num_pages(count, page_size),
         has_previous |-> number > 1]

\* "Paginate referrals" and the "pagination" part of the body: the page asked
\* for, or the last page when validate_number raises EmptyPage
paginate(object_list, page_number, page_size) ==
    LET count == Len(object_list)
        number == IF empty_page(page_number, count, page_size)
                  THEN num_pages(count, page_size) ELSE page_number
    IN  [referrals |-> [i \in DOMAIN page(object_list, number, page_size) |->
                            page(object_list, number, page_size)[i].id],
         current_page |-> number,
         page_size |-> page_size,
         total_pages |-> num_pages(count, page_size),
         total_referrals |-> count,
         has_next |-> number < num_pages(count, page_size),
         has_previous |-> number > 1]

\* Paginator(referrals, int(page_size)) with a page size below 1: the
\* division by zero, or the EmptyPage raised again in the except branch
bad_page_size(page_size) == page_size < 1

\* GetPractitionerReferralsView.get; last records the request with the response
GetPractitionerReferrals(user, page_number_param, page_size_param, search_query) ==
    /\ UNCHANGED <<catalogVars, dataVars, now, procs>>
    /\ LET page_number == query_param(page_number_param, DefaultPageNumber)
           page_size == query_param(page_size_param, DefaultPageSize)
           mine == {r \in Range(referrals) : r.referred_by = user}
           found == {r \in Range(referrals) :
                        search_query = <<>> \/ search_filter(r, search_query)}
           ordered == order_by(filter_rows(referrals, mine), newest_first(referrals))
           referrals_qs == filter_rows(ordered, found)
           with_status(st) ==
               Len(filter_rows(referrals_qs, {r \in Range(referrals) : r.status = st}))
       IN  last' =
             [request |-> [user |-> user, page_number |-> page_number_param,
                           page_size |-> page_size_param,
                           search_query |-> search_query]] @@
             IF users[user].user_type # MEDICAL_PRACTITIONER
             THEN Response("practitioner_referrals", 400,
                           "You do not have permission to view these referrals.", <<>>)
             ELSE IF bad_page_size(page_size)
             THEN Response("practitioner_referrals", 500, "ZeroDivisionError or EmptyPage",
                           <<>>)
             ELSE Response("practitioner_referrals", 200,
                           "Referrals retrieved successfully",
                           [data_summary |->
                               [total_referrals |-> Len(referrals_qs),
                                total_completed |-> with_status(COMPLETED),
                                total_pending |-> with_status(PENDING),
                                total_received |-> with_status(RECEIVED)]]
                           @@ paginate(referrals_qs, page_number, page_size))

\* get_user_branches: the dict it returns, as a record of the branch ids and
\* the facility id (NoId for None)
get_user_branches(user) ==
    IF \E f \in DOMAIN facilities : facilities[f].admin = user
    THEN LET facility_as_admin ==
                 CHOOSE f \in DOMAIN facilities :
                     /\ facilities[f].admin = user
                     /\ \A g \in DOMAIN facilities : facilities[g].admin = user => f <= g
         IN  [branches |-> {b \in DOMAIN branches : branches[b].facility = facility_as_admin},
              facility |-> facility_as_admin]
    ELSE IF \E bt \in branch_technicians : bt.user = user
    THEN LET first_assignment ==
                 CHOOSE bt \in branch_technicians :
                     /\ bt.user = user
                     /\ \A other \in branch_technicians :
                          other.user = user => bt.id <= other.id
         IN  [branches |-> {first_assignment.branch},
              facility |-> branches[first_assignment.branch].facility]
    ELSE [branches |-> {}, facility |-> NoId]

\* the str values that int() parses, and their values
numerals == <<"1", "2", "3", "4", "5", "6", "7", "8", "9">>
int_parses(value) == \E n \in 1..Len(numerals) : numerals[n] = value
int(value) == CHOOSE n \in 1..Len(numerals) : numerals[n] = value

\* the values of the lookup facility_branch__in=user_branches: iterating a
\* dict yields its keys, the str values "branches" and "facility"
in_lookup_values(user_branches) == DOMAIN user_branches

\* GetTechnicianReferralsView.get
GetTechnicianReferrals(user, sort_by, sort_type, page_number_param, page_size_param, search_query) ==
    /\ UNCHANGED <<catalogVars, dataVars, now, procs>>
    /\ LET page_number == query_param(page_number_param, DefaultPageNumber)
           page_size == query_param(page_size_param, DefaultPageSize)
           values == in_lookup_values(get_user_branches(user))
           theirs == {r \in Range(referrals) : \E v \in values : r.facility_branch = int(v)}
           found == {r \in Range(referrals) :
                        search_query = <<>> \/ search_filter(r, search_query)}
           descending == query_param(sort_type, "desc") = "desc"
           sorted(rows) ==
               IF sort_by = <<"doctor">>
               THEN IF descending THEN order_by(rows, doctor_descending(rows))
                    ELSE order_by(rows, doctor_ascending(rows))
               ELSE IF sort_by = <<"time">> /\ ~descending
               THEN order_by(rows, oldest_first(rows))
               ELSE order_by(rows, newest_first(rows))
           referrals_qs == sorted(filter_rows(filter_rows(referrals, theirs), found))
       IN  last' =
             [request |-> [user |-> user, page_number |-> page_number_param,
                           page_size |-> page_size_param,
                           search_query |-> search_query]] @@
             IF users[user].user_type # LAB_TECHNICIAN
             THEN Response("technician_referrals", 400,
                           "You do not have permission to view these referrals.", <<>>)
             ELSE IF \E v \in values : ~int_parses(v)
             THEN Response("technician_referrals", 500,
                           "ValueError: Field 'id' expected a number", <<>>)
             ELSE IF bad_page_size(page_size)
             THEN Response("technician_referrals", 500, "ZeroDivisionError or EmptyPage",
                           <<>>)
             ELSE Response("technician_referrals", 200,
                           "Referrals retrieved successfully",
                           paginate(referrals_qs, page_number, page_size))

\* the referrals stored when the lists are read: at most MaxListed
MaxListed == 3

\* the stored Referral number i of the lists' fixture: referred at time
\* i - 1, the second by dr_b and the others by dr_a, at branch 1 when i is
\* odd and at branch 2 when i is even, the first for the first patient and
\* the others for the second; the second was moved to Received and the
\* third to Completed
ListedReferral(i) ==
    [new_referral(RandomCode(i), 2 - (i % 2), IF i = 1 THEN 1 ELSE 2,
                  IF i = 2 THEN "dr_b" ELSE "dr_a", i - 1)
        EXCEPT !.status = IF i = 2 THEN RECEIVED
                          ELSE IF i = 3 THEN COMPLETED ELSE PENDING,
               !.updated_at = IF i \in {2, 3} THEN i ELSE i - 1,
               !.completed_at = IF i = 3 THEN i ELSE NoTime]

\* the tables after MaxListed or fewer create-referral requests of the two
\* practitioners (and one PUT on the second and on the third referral)
InitList ==
    /\ users = InitUsers
    /\ InitCatalog
    /\ patients = <<[full_name_or_id |-> Joe], [full_name_or_id |-> Tom]>>
    /\ \E n \in 0..MaxListed :
            /\ referrals = [i \in 1..n |-> ListedReferral(i)]
            /\ referral_tests =
                 [i \in 1..n |-> new_referral_test(ListedReferral(i),
                                                   IF i % 2 = 1 THEN 1 ELSE 3, i - 1)]
            /\ now = n + 1
    /\ last = NoResponse
    /\ procs = [p \in Procs |-> IdleProc]

\* the callers of the practitioner list and of the technician list
PractitionerListInputs == {"dr_a", "dr_b", "tech"}
TechnicianListInputs == {"tech", "adm", "dr_a"}
\* page_number: absent, below 1, in range, beyond the last page
PageNumberInputs == {<<>>, <<-1>>, <<0>>, <<1>>, <<2>>, <<MaxListed + 1>>}
\* page_size: absent, zero, one and two
PageSizeInputs == {<<>>, <<0>>, <<1>>, <<2>>}
\* search_query: absent, part of a patient's name in another case, a text
\* that no field contains
SearchInputs == {<<>>, <<"j", "O">>, <<"z", "z">>}
\* sort_by and sort_type of the technician list
SortByInputs == {<<>>, <<"doctor">>}
SortTypeInputs == {<<"asc">>}

GetPractitionerReferralsStep ==
    \E user \in PractitionerListInputs, page_number \in PageNumberInputs,
       page_size \in PageSizeInputs, search_query \in SearchInputs :
        GetPractitionerReferrals(user, page_number, page_size, search_query)

GetTechnicianReferralsStep ==
    \E user \in TechnicianListInputs, sort_by \in SortByInputs, sort_type \in SortTypeInputs,
       page_number \in PageNumberInputs, page_size \in PageSizeInputs,
       search_query \in SearchInputs :
        GetTechnicianReferrals(user, sort_by, sort_type, page_number, page_size,
                               search_query)

NextList ==
    \/ GetPractitionerReferralsStep
    \/ GetTechnicianReferralsStep

SpecList == InitList /\ [][NextList]_vars

----------------------------------------------------------------------------
(* Registration and login *)

\* min_length of validate_strong_password
min_length == 8

\* re.search(class, password): some character of the password is in the class
re_search(class, password) == \E i \in 1..Len(password) : password[i] \in class

\* validate_strong_password: the code of the error raised, "" when none is
validate_strong_password(password) ==
    LET digits == {"0", "1", "2", "3", "4", "5", "6", "7", "8", "9"}
        special_characters ==
            {"!", "@", "#", "$", "%", "^", "&", "*", "(", ")", "_", "+", "-", "=",
             "[", "]", "{", "}", ";", "'", ":", "\"", "\\", "|", ",", ".", "<", ">",
             "/", "?"}
    IN  IF Len(password) < min_length THEN "password_too_short"
        ELSE IF ~re_search(Range(ascii_uppercase), password) THEN "password_no_upper"
        ELSE IF ~re_search(Range(ascii_lowercase), password) THEN "password_no_lower"
        ELSE IF ~re_search(digits, password) THEN "password_no_digit"
        ELSE IF ~re_search(special_characters, password) THEN "password_no_special"
        ELSE ""

\* a field of a request body is <<>> when the body does not have it and
\* <<value>> when it does.  CharField(required=True): the error of the field
char_field(param) == IF param = <<>> THEN "required" ELSE ""

\* CharField(required=True, validators=[validate_strong_password])
password_field(param) ==
    IF char_field(param) # "" THEN char_field(param)
    ELSE validate_strong_password(param[1])

\* the errors of the fields: the set of <<field, error>> of the fields whose
\* error is not ""
field_errors(errors) == {<<f, errors[f]>> : f \in {g \in DOMAIN errors : errors[g] # ""}}

\* User.objects.filter(phone_number=phone_number).exists()
phone_number_exists(phone_number) ==
    \E u \in DOMAIN users : users[u].phone_number = phone_number

\* RegisterSerializer.validate if it did not look the phone number up
register_validate_without_phone_number(data) ==
    IF data.password # data.confirm_password
    THEN {<<"confirm_password", "Password and confirm password do not match.">>}
    ELSE {}

\* RegisterSerializer.validate: the error it raises, {} when it returns attrs
register_validate(data) ==
    IF phone_number_exists(data.phone_number[1])
    THEN {<<"phone_number", "A user with this phone number already exists.">>}
    ELSE IF data.password # data.confirm_password
    THEN {<<"confirm_password", "Password and confirm password do not match.">>}
    ELSE {}

\* RegisterSerializer.is_valid: serializer.errors.  validate() runs only when
\* every field passed its own validation
register_errors(data) ==
    LET errors == field_errors([full_name |-> char_field(data.full_name),
                                phone_number |-> char_field(data.phone_number),
                                password |-> password_field(data.password),
                                confirm_password |-> password_field(data.confirm_password)])
    IN  IF errors # {} THEN errors ELSE register_validate(data)

\* the INSERT of a User row: username (AbstractUser) and phone_number are
\* unique; a NULL phone number collides with nothing
user_insert_ok(row) ==
    \A u \in DOMAIN users :
        /\ users[u].username # row.username
        /\ row.phone_number = NoUser \/ users[u].phone_number # row.phone_number

\* users created by requests: at most MaxCreated per run
MaxCreated == 2
\* uuid.uuid4(): the primary key of the next User row
uuid4 == "u" \o ToString(Cardinality(DOMAIN users \ DOMAIN InitUsers) + 1)

\* UserRegistrationView.post
Register(full_name, phone_number, password, confirm_password) ==
    LET data == [full_name |-> full_name, phone_number |-> phone_number,
                 password |-> password, confirm_password |-> confirm_password]
        errors == register_errors(data)
        row == NewUser(full_name[1], phone_number[1], MEDICAL_PRACTITIONER, password[1])
    IN  /\ IF errors # {}
           THEN /\ last' = [request |-> data] @@ Response("register", 400, errors, <<>>)
                /\ UNCHANGED users
           ELSE IF ~user_insert_ok(row)
           THEN \* IntegrityError inside transaction.atomic(): rolled back
                /\ last' = [request |-> data]
                           @@ Response("register", 400,
                                       {<<"detail", "An error occurred during registration. Please try again.">>},
                                       <<>>)
                /\ UNCHANGED users
           ELSE /\ Cardinality(DOMAIN users \ DOMAIN InitUsers) < MaxCreated
                /\ users' = (uuid4 :> row) @@ users
                /\ last' = [request |-> data]
                           @@ Response("register", 201, {}, <<uuid4>>)
        /\ UNCHANGED <<facilities, branches, branch_technicians, test_types, tests,
                       dataVars, now, procs>>

\* LoginSerializer.validate: the error it raises, {} when it returns attrs
login_validate(data) ==
    IF ~phone_number_exists(data.phone_number[1])
    THEN {<<"phone_number_and_password", "Invalid phone number or password.">>}
    ELSE IF ~check_password(users[CHOOSE u \in DOMAIN users :
                                    users[u].phone_number = data.phone_number[1]],
                            data.password[1])
    THEN {<<"phone_number_and_password", "Invalid phone number or password.">>}
    ELSE {}

\* LoginSerializer.is_valid: serializer.errors
login_errors(data) ==
    LET errors == field_errors([phone_number |-> char_field(data.phone_number),
                                password |-> char_field(data.password)])
    IN  IF errors # {} THEN errors ELSE login_validate(data)

\* RefreshToken.for_user(user) and its access token
tokens_for_user(user) ==
    [refresh_token |-> <<"refresh", user>>, access_token |-> <<"access", user>>]

\* login_last_login if the view stamped last_login on a failed login as well
login_last_login_always(data, t) ==
    [u \in DOMAIN users |->
        IF data.phone_number # <<>> /\ users[u].phone_number = data.phone_number[1]
        THEN [users[u] EXCEPT !.last_login = t]
        ELSE users[u]]

\* the User table after LoginView.post: "Update last login" is reached only
\* with a valid serializer
login_last_login(data, t) ==
    [u \in DOMAIN users |->
        IF login_errors(data) = {} /\ users[u].phone_number = data.phone_number[1]
        THEN [users[u] EXCEPT !.last_login = t]
        ELSE users[u]]

\* LoginView.post
Login(phone_number, password) ==
    LET data == [phone_number |-> phone_number, password |-> password]
        errors == login_errors(data)
        user == CHOOSE u \in DOMAIN users : users[u].phone_number = phone_number[1]
    IN  /\ IF errors # {}
           THEN /\ last' = [request |-> data] @@ Response("login", 400, errors, <<>>)
                /\ users' = login_last_login(data, now)
                /\ UNCHANGED now
           ELSE /\ now < MaxNow
                /\ users' = login_last_login(data, now)
                /\ now' = now + 1
                /\ last' = [request |-> data]
                           @@ Response("login", 200, {}, <<tokens_for_user(user)>>)
        /\ UNCHANGED <<facilities, branches, branch_technicians, test_types, tests,
                       dataVars, procs>>

\* the register requests: a name that is taken as a username (Ann), free
\* (Joe, Al) or free until Joe registers ("jo E"); a phone number that is
\* taken or free; a strong password and one without an upper-case letter; a
\* confirmation that may differ
RegisterStep ==
    \E full_name \in {<<Ann>>, <<Joe>>, <<<<"j", "o", " ", "E">>>>, <<<<"A", "l">>>>},
       phone_number \in {<<"0201">>, <<"0207">>, <<"0208">>},
       password \in {<<Pass123>>, <<lower(Pass123)>>},
       confirm_password \in {<<Pass123>>, <<<<"P", "a", "s", "s", "4", "5", "6", "?">>>>} :
        Register(full_name, phone_number, password, confirm_password)

\* the login requests: the phone number of a fixture user, of a user who may
\* have registered, of nobody; no password, the users' password, another one
LoginStep ==
    \E phone_number \in {<<"0201">>, <<"0207">>, <<"0999">>},
       password \in {<<>>, <<Pass123>>, <<lower(Pass123)>>} :
        Login(phone_number, password)

NextAuth ==
    \/ RegisterStep
    \/ LoginStep

SpecAuth == Init /\ [][NextAuth]_vars

----------------------------------------------------------------------------
(* The facility admin's endpoints: branches and lab technicians *)

\* BaseAPIView.finalize_response: an authenticated user who is inactive and
\* no superuser gets 403 in place of the response of the view
finalize_response(user, response) ==
    IF ~users[user].is_active /\ ~users[user].is_superuser
    THEN Response(response.op, 403,
                  {<<"detail", "Password change required. Please change your password before proceeding.">>},
                  <<>>)
    ELSE response

\* BranchTechnician.objects.filter(user__id=user.id).first(): the row with
\* the lowest pk, <<>> for None
first_assignment(user) ==
    LET theirs == {bt \in branch_technicians : bt.user = user}
    IN  IF theirs = {} THEN <<>>
        ELSE <<CHOOSE bt \in theirs : \A other \in theirs : bt.id <= other.id>>

\* technician.branch.facility if technician else None (NoId for None)
facility_of_caller(user) ==
    IF first_assignment(user) = <<>> THEN NoId
    ELSE branches[first_assignment(user)[1].branch].facility

\* facility_admin_required if every caller with a facility were let through
facility_admin_not_required(user, only_admins) ==
    IF facility_of_caller(user) = NoId
    THEN "Unauthorized: User is not associated with any facility."
    ELSE ""

\* the two checks the views make before anything else: the message of the
\* api_exception raised, "" when the caller is the admin of the facility
facility_admin_required(user, only_admins) ==
    IF facility_of_caller(user) = NoId
    THEN "Unauthorized: User is not associated with any facility."
    ELSE IF facilities[facility_of_caller(user)].admin # user THEN only_admins
    ELSE ""

\* FacilityBranchSerializer.is_valid: serializer.errors
branch_errors(facility, name) ==
    IF char_field(name) # "" THEN field_errors([name |-> char_field(name)])
    ELSE IF \E b \in DOMAIN branches :
                branches[b].name = name[1] /\ branches[b].facility = facility
    THEN {<<"name", "A facility branch with this name already exists.">>}
    ELSE {}

\* FacilityBranchView.post
AddBranch(user, name) ==
    LET request == [user |-> user, name |-> name]
        facility == facility_of_caller(user)
        unauthorized ==
            facility_admin_required(user, "Unauthorized: Only facility admins can add branches.")
        errors == branch_errors(facility, name)
        respond(code, detail, data) ==
            [request |-> request]
            @@ finalize_response(user, Response("add_branch", code, detail, data))
    IN  /\ IF unauthorized # ""
           THEN /\ last' = respond(400, {<<"detail", unauthorized>>}, <<>>)
                /\ UNCHANGED branches
           ELSE IF errors # {}
           THEN /\ last' = respond(400, errors, <<>>)
                /\ UNCHANGED branches
           ELSE /\ branches' = Append(branches, [facility |-> facility, name |-> name[1],
                                                 is_active |-> TRUE])
                /\ last' = respond(201, {}, <<Len(branches) + 1>>)
        /\ UNCHANGED <<users, facilities, branch_technicians, test_types, tests,
                       dataVars, now, procs>>

\* branch_of_facility if the lookup left out facility=facility
branch_of_any_facility(branch_id, facility) == branch_id \in DOMAIN branches

\* FacilityBranch.objects.get(id=branch_id, facility=facility) finds a row
branch_of_facility(branch_id, facility) ==
    branch_id \in DOMAIN branches /\ branches[branch_id].facility = facility

\* FacilityBranchView.delete
DeactivateBranch(user, branch_id) ==
    LET request == [user |-> user, branch_id |-> branch_id]
        facility == facility_of_caller(user)
        unauthorized ==
            facility_admin_required(user, "Unauthorized: Only facility admins can delete branches.")
        respond(code, detail) ==
            [request |-> request]
            @@ finalize_response(user, Response("deactivate_branch", code, detail, <<>>))
    IN  /\ IF unauthorized # ""
           THEN /\ last' = respond(400, {<<"detail", unauthorized>>})
                /\ UNCHANGED branches
           ELSE IF ~branch_of_facility(branch_id, facility)
           THEN /\ last' = respond(400, {<<"detail", "Facility branch with the given ID does not exist.">>})
                /\ UNCHANGED branches
           ELSE /\ branches' = [branches EXCEPT ![branch_id].is_active = FALSE]
                /\ last' = respond(200, {})
        /\ UNCHANGED <<users, facilities, branch_technicians, test_types, tests,
                       dataVars, now, procs>>

\* phone_number = attrs.get("phone_number"): None (NULL) when the optional
\* field is absent
phone_number_or_none(param) == IF param = <<>> THEN NoUser ELSE param[1]

\* LabTechnicianSerializer.validate if it did not tie the branch to the facility
technician_validate_any_branch(facility, data) ==
    IF phone_number_exists(phone_number_or_none(data.phone_number))
    THEN {<<"phone_number", "A user with this phone number already exists.">>}
    ELSE IF ~branch_of_any_facility(data.branch_id[1], facility)
    THEN {<<"branch_id", "Facility branch with the given ID does not exist.">>}
    ELSE {}

\* LabTechnicianSerializer.validate: the error it raises, {} when none
technician_validate(facility, data) ==
    IF phone_number_exists(phone_number_or_none(data.phone_number))
    THEN {<<"phone_number", "A user with this phone number already exists.">>}
    ELSE IF ~branch_of_facility(data.branch_id[1], facility)
    THEN {<<"branch_id", "Facility branch with the given ID does not exist.">>}
    ELSE {}

\* LabTechnicianSerializer.is_valid: serializer.errors; phone_number is
\* optional
technician_errors(facility, data) ==
    LET errors == field_errors([full_name |-> char_field(data.full_name),
                                branch_id |-> char_field(data.branch_id),
                                password |-> password_field(data.password)])
    IN  IF errors # {} THEN errors ELSE technician_validate(facility, data)

\* AddLabTechnicianView.post
AddLabTechnician(user, full_name, phone_number, branch_id, password) ==
    LET data == [full_name |-> full_name, phone_number |-> phone_number,
                 branch_id |-> branch_id, password |-> password]
        request == [user |-> user] @@ data
        facility == facility_of_caller(user)
        unauthorized ==
            facility_admin_required(user, "Unauthorized: Only facility admins can add lab technicians.")
        errors == technician_errors(facility, data)
        row == NewUser(full_name[1], phone_number_or_none(phone_number), LAB_TECHNICIAN,
                       password[1])
        pk == 1 + Cardinality(branch_technicians)
        respond(code, detail, created) ==
            [request |-> request]
            @@ finalize_response(user, Response("add_lab_technician", code, detail, created))
    IN  /\ IF unauthorized # ""
           THEN /\ last' = respond(400, {<<"detail", unauthorized>>}, <<>>)
                /\ UNCHANGED <<users, branch_technicians>>
           ELSE IF errors # {}
           THEN /\ last' = respond(400, errors, <<>>)
                /\ UNCHANGED <<users, branch_technicians>>
           ELSE IF ~user_insert_ok(row)
           THEN \* IntegrityError in User.objects.create, not handled
                /\ last' = respond(500, {<<"detail", "IntegrityError">>}, <<>>)
                /\ UNCHANGED <<users, branch_technicians>>
           ELSE /\ Cardinality(DOMAIN users \ DOMAIN InitUsers) < MaxCreated
                /\ users' = (uuid4 :> row) @@ users
                /\ branch_technicians' =
                        branch_technicians
                        \cup {[id |-> pk, user |-> uuid4, branch |-> branch_id[1]]}
                /\ last' = respond(201, {}, <<uuid4>>)
        /\ UNCHANGED <<facilities, branches, test_types, tests, dataVars, now, procs>>

\* JWTAuthentication, the authentication class of the views: the user of
\* the token must be active
authenticated(user) == users[user].is_active

\* the response to a request whose token names an inactive user
NotAuthenticated(user, op) ==
    /\ ~authenticated(user)
    /\ last' = [request |-> [user |-> user]]
               @@ Response(op, 401, {<<"detail", "User is inactive">>}, <<>>)
    /\ UNCHANGED <<catalogVars, dataVars, now, procs>>

\* the admin site's user change form: the is_active box of a user
AdminSetActive(user, is_active) ==
    /\ users[user].is_active # is_active
    /\ users' = [users EXCEPT ![user].is_active = is_active]
    /\ last' = [request |-> [user |-> user]] @@ Response("admin_user_change", 200, {}, <<>>)
    /\ UNCHANGED <<facilities, branches, branch_technicians, test_types, tests,
                   dataVars, now, procs>>

\* the tables of the facility endpoints: "adm", the admin of facility 1, is
\* assigned to a branch of facility 2 first and to one of his own second;
\* dr_a has referred a patient to branch 2
InitFacility ==
    /\ users = InitUsers
    /\ InitFacilities
    /\ branch_technicians = {[id |-> 1, user |-> "tech", branch |-> 1],
                             [id |-> 2, user |-> "adm_b", branch |-> 2],
                             [id |-> 3, user |-> "adm", branch |-> 2],
                             [id |-> 4, user |-> "adm", branch |-> 1]}
    /\ patients = <<[full_name_or_id |-> Joe]>>
    /\ referrals = <<new_referral(RandomCode(1), 2, 1, "dr_a", 0)>>
    /\ referral_tests = <<new_referral_test(new_referral(RandomCode(1), 2, 1, "dr_a", 0), 3, 0)>>
    /\ now = 1
    /\ last = NoResponse
    /\ procs = [p \in Procs |-> IdleProc]

\* the callers of the facility endpoints: the admin of facility 2, the
\* admin of facility 1, a technician and a practitioner
FacilityCallers == {"adm_b", "adm", "tech", "dr_a"}

AddBranchStep ==
    \E user \in FacilityCallers,
       name \in {<<>>, <<<<"E", "a", "s", "t">>>>, <<<<"M", "a", "i", "n">>>>} :
        authenticated(user) /\ AddBranch(user, name)

DeactivateBranchStep ==
    \E user \in FacilityCallers, branch_id \in BranchIdInputs :
        authenticated(user) /\ DeactivateBranch(user, branch_id)

\* a name that is free (Joe) or taken as a username (Ann); no phone number, a
\* registered one, a free one; a branch of facility 1, of facility 2, of
\* none; a strong password and a weak one
AddLabTechnicianStep ==
    \E user \in FacilityCallers, full_name \in {<<Joe>>, <<Ann>>},
       phone_number \in {<<>>, <<"0201">>, <<"0207">>},
       branch_id \in {<<1>>, <<2>>, <<9>>},
       password \in {<<Pass123>>, <<lower(Pass123)>>} :
        authenticated(user)
        /\ AddLabTechnician(user, full_name, phone_number, branch_id, password)

NotAuthenticatedStep ==
    \E user \in FacilityCallers,
       op \in {"add_branch", "deactivate_branch", "add_lab_technician"} :
        NotAuthenticated(user, op)

AdminSetActiveStep == \E is_active \in BOOLEAN : AdminSetActive("adm_b", is_active)

NextFacility ==
    \/ AddBranchStep
    \/ DeactivateBranchStep
    \/ AddLabTechnicianStep
    \/ NotAuthenticatedStep
    \/ AdminSetActiveStep
    \/ GetReferralStep

SpecFacility == InitFacility /\ [][NextFacility]_vars

----------------------------------------------------------------------------
(* Properties.  A property of a request is an action formula of the shape   *)
(* "every step that is this request has this outcome"; it is written        *)
(* outcome \/ ~request, which is the implication with the cheap side first. *)

\* the stored Referral a ReferralTest row points to
ReferralOf(rt) == referrals[ReferralIndex(rt.referral)]

\* the caller referred the patient, or is a technician of the branch
DoctorOrTechnician(user, referral) ==
    \/ referral.referred_by = user
    \/ \E bt \in branch_technicians :
            bt.user = user /\ bt.branch = referral.facility_branch

\* the caller is the referring doctor, a technician of the referral's branch
\* or the admin of the facility of that branch
DoctorTechnicianOrAdmin(user, referral) ==
    \/ DoctorOrTechnician(user, referral)
    \/ facilities[branches[referral.facility_branch].facility].admin = user

PermissionDeniedDetail == "You do not have permission to view or update this referral."
TestPermissionDetail == "You do not have permission to update this test status."

----------------------------------------------------------------------------
(* Properties of the status of a ReferralTest *)

StatusInSet == \A i \in 1..Len(referral_tests) : referral_tests[i].status \in TestStatus

InvalidStatusRejected ==
    \/ last'.op # "update_test_status"
    \/ last'.code = 400 /\ referral_tests' = referral_tests
    \/ \A user \in UserIds, id \in ReferralTestIdInputs, status \in StatusInputs \ TestStatus :
         ~UpdateTestStatus(user, id, status)

\* C1: after any sequence of create-referral and update-test-status requests
\* every ReferralTest's status is Pending, Received or Completed, and an
\* update-test-status request with any other status value, or with none, is
\* answered with an error and leaves the ReferralTest rows as they were.
C1_StatusInEnumeratedSet == []StatusInSet /\ [][InvalidStatusRejected]_vars

\* an authorized caller sent an invalid status for a stored test
C1_Witness ==
    /\ Len(referral_tests) > 0
    /\ last.op = "update_test_status"
    /\ last.detail = "Invalid status value."

\* C2: an update-test-status request of an authorized caller whose status is
\* the one the ReferralTest already has is answered with an error, and the
\* row's status, completed_at and updated_at stay as they were.
C2_SameStatusRejected ==
    [][\/ last'.op # "update_test_status"
       \/ \A id \in 1..Len(referral_tests) :
            \/ /\ last'.code = 400
               /\ referral_tests'[id].status = referral_tests[id].status
               /\ referral_tests'[id].completed_at = referral_tests[id].completed_at
               /\ referral_tests'[id].updated_at = referral_tests[id].updated_at
            \/ \A user \in UserIds :
                 \/ ~DoctorOrTechnician(user, ReferralOf(referral_tests[id]))
                 \/ ~UpdateTestStatus(user, id, referral_tests[id].status)]_vars

\* a test that was moved to Received is asked to become Received again
C2_Witness ==
    /\ last.op = "update_test_status"
    /\ last.detail = "The test is already in that state."
    /\ \E i \in 1..Len(referral_tests) : referral_tests[i].status = RECEIVED

\* C3: a successful update-test-status request assigns completed_at (the time
\* of the request) exactly when the new status is Completed; a successful
\* move to Pending or Received leaves completed_at as it was.
C3_CompletedAtIffCompleted ==
    [][\/ last'.op # "update_test_status"
       \/ last'.code # 200
       \/ \A id \in 1..Len(referral_tests), status \in StatusInputs :
            \/ /\ referral_tests'[id].status = status
               /\ (referral_tests'[id].completed_at = now) <=> (status = COMPLETED)
               /\ status # COMPLETED
                    => referral_tests'[id].completed_at = referral_tests[id].completed_at
            \/ \A user \in UserIds : ~UpdateTestStatus(user, id, status)]_vars

\* one test was completed and a test was moved back to Pending afterwards
C3_Witness ==
    /\ last.op = "update_test_status"
    /\ last.code = 200
    /\ \E i \in 1..Len(referral_tests) :
         /\ referral_tests[i].completed_at # NoTime
         /\ referral_tests[i].status = PENDING
         /\ referral_tests[i].updated_at > referral_tests[i].completed_at

\* C11: every update-test-status request of the referring user or of a
\* technician of the branch that names a status of {Pending, Received,
\* Completed} other than the test's current one is accepted and stores it,
\* whatever the current status is: backward moves (Completed to Pending) and
\* skipping moves (Pending to Completed) included.
C11_EveryTransitionAccepted ==
    [][\/ last'.op # "update_test_status"
       \/ \A id \in 1..Len(referral_tests), status \in TestStatus :
            \/ status = referral_tests[id].status
            \/ last'.code = 200 /\ referral_tests'[id].status = status
            \/ \A user \in UserIds :
                 \/ ~DoctorOrTechnician(user, ReferralOf(referral_tests[id]))
                 \/ ~UpdateTestStatus(user, id, status)]_vars

\* a test went from Pending straight to Completed and then back to Pending
C11_Witness ==
    /\ last.op = "update_test_status"
    /\ last.code = 200
    /\ \E i \in 1..Len(referral_tests) :
         /\ referral_tests[i].status = PENDING
         /\ referral_tests[i].completed_at = referral_tests[i].created_at + 1
         /\ referral_tests[i].updated_at = referral_tests[i].completed_at + 1

----------------------------------------------------------------------------
(* Properties of create-referral *)

\* the facility a test is offered by, NoId when it has no type or its type
\* has no facility
FacilityOfTest(t) ==
    IF tests[t].test_type = NoId THEN NoId ELSE test_types[tests[t].test_type].facility

TestsOfBranchFacility ==
    \A i \in 1..Len(referral_tests) :
        /\ FacilityOfTest(referral_tests[i].test) # NoId
        /\ FacilityOfTest(referral_tests[i].test)
              = branches[ReferralOf(referral_tests[i]).facility_branch].facility

\* every id of the list is a test of a facility other than the branch's
AllOfAnotherFacility(branch_id, test_ids) ==
    /\ branch_id \in DOMAIN branches
    /\ test_ids # <<>>
    /\ \A t \in Range(test_ids) :
         /\ t \in DOMAIN tests
         /\ FacilityOfTest(t) \notin {NoId, branches[branch_id].facility}

ForeignTestsRejected ==
    \/ last'.op # "create_referral"
    \/ /\ last'.code = 400
       /\ referrals' = referrals
       /\ referral_tests' = referral_tests
    \/ \A branch_id \in BranchIdInputs, test_ids \in TestsInputs :
         \/ ~AllOfAnotherFacility(branch_id, test_ids)
         \/ \A user \in UserIds, name \in PatientInputs :
              ~CreateReferral(user, branch_id, test_ids, name)

\* C4: after any sequence of create-referral requests every ReferralTest's
\* test has a TestType of the facility of the referral's branch, and a
\* create-referral request whose test ids all belong to another facility is
\* answered with an error and stores no Referral and no ReferralTest.
C4_TestsBelongToBranchFacility == []TestsOfBranchFacility /\ [][ForeignTestsRejected]_vars

\* a referral with a test is stored and a request was refused for its tests
C4_Witness ==
    /\ Len(referral_tests) > 0
    /\ last.op = "create_referral"
    /\ last.detail = "test_id"

\* the characters A-Z and 0-9
UppercaseAlphanumeric ==
    {"A","B","C","D","E","F","G","H","I","J","K","L","M","N","O","P","Q","R","S",
     "T","U","V","W","X","Y","Z","0","1","2","3","4","5","6","7","8","9"}

\* C5: after any interleaving of create-referral requests every stored
\* Referral id is 10 characters of A-Z and 0-9, and no two Referral rows have
\* the same id.
C5_ReferralIdsWellFormedAndUnique ==
    /\ \A i \in 1..Len(referrals) :
         /\ Len(referrals[i].id) = 10
         /\ \A k \in 1..Len(referrals[i].id) : referrals[i].id[k] \in UppercaseAlphanumeric
    /\ \A i, j \in 1..Len(referrals) : i # j => referrals[i].id # referrals[j].id

\* two requests drew the same id before either stored it: one row is stored
\* and the other INSERT failed
C5_Witness ==
    /\ Len(referrals) = 1
    /\ \E p, q \in Procs :
         /\ p # q
         /\ procs[p].code = procs[q].code
         /\ procs[p].stored /\ procs[p].pc = "done" /\ procs[p].status = 201
         /\ ~procs[q].stored /\ procs[q].pc = "done" /\ procs[q].status = 500
         /\ procs[q].code = referrals[1].id

\* the tests of the ReferralTest rows of the Referral a request stored
StoredTestsOf(p) ==
    {referral_tests[i].test : i \in {j \in 1..Len(referral_tests) :
                                         referral_tests[j].referral = procs[p].code}}

\* C8: creating a referral is all-or-nothing: a create-referral request that
\* failed leaves no Referral and no ReferralTest of its own stored, and the
\* Referral of a request that succeeded has a ReferralTest for every test
\* the request validated.
C8_CreateAllOrNothing ==
    \A p \in Procs :
        procs[p].pc = "done" =>
            IF procs[p].status = 201
            THEN procs[p].stored /\ StoredTestsOf(p) = procs[p].validated
            ELSE ~procs[p].stored

----------------------------------------------------------------------------
(* Properties of the permission checks *)

\* C6: GET and PUT on a stored referral answer a caller who is neither its
\* referring doctor, nor a technician of its branch, nor the admin of the
\* branch's facility with the permission error, without the referral's data
\* and without changing a row; a caller who is one of the three reaches the
\* view: GET returns the referral, PUT answers what the serializer decides.
C6_ReferralPermission ==
    [][\/ last'.op \notin {"get_referral", "update_referral"}
       \/ \A user \in UserIds, i \in 1..Len(referrals) :
            \/ IF DoctorTechnicianOrAdmin(user, referrals[i])
               THEN \/ last'.code = 200 /\ last'.data = referrals[i].id
                    \/ last'.op = "update_referral"
                         /\ last'.detail \in {"Invalid status value.",
                                              "This field is required."}
               ELSE /\ last'.code = 403
                    /\ last'.detail = PermissionDeniedDetail
                    /\ last'.data = <<>>
                    /\ referrals' = referrals
                    /\ referral_tests' = referral_tests
            \/ /\ ~GetReferral(user, referrals[i].id)
               /\ \A status \in StatusInputs :
                    ~UpdateReferralStatus(user, referrals[i].id, status)]_vars

\* a PUT on a referral of a facility that has an admin was refused
C6_Witness ==
    /\ last.op = "update_referral"
    /\ last.code = 403
    /\ \E i \in 1..Len(referrals) :
         facilities[branches[referrals[i].facility_branch].facility].admin # NoUser

\* C7: an update-test-status request on a stored test succeeds only for the
\* referral's referring user or a technician of the referral's branch; any
\* other caller gets the permission error whatever status was sent, and the
\* ReferralTest rows stay as they were.
C7_TestStatusPermission ==
    [][\/ last'.op # "update_test_status"
       \/ \A user \in UserIds, id \in 1..Len(referral_tests) :
            \/ IF DoctorOrTechnician(user, ReferralOf(referral_tests[id]))
               THEN last'.detail # TestPermissionDetail
               ELSE /\ last'.code = 400
                    /\ last'.detail = TestPermissionDetail
                    /\ referral_tests' = referral_tests
            \/ \A status \in StatusInputs : ~UpdateTestStatus(user, id, status)]_vars

\* an update of a test was refused at a facility that has an admin
C7_Witness ==
    /\ last.op = "update_test_status"
    /\ last.detail = TestPermissionDetail
    /\ \E i \in 1..Len(referrals) :
         facilities[branches[referrals[i].facility_branch].facility].admin # NoUser

----------------------------------------------------------------------------
(* Properties of the referral-level status *)

\* C9: for a caller who may access the referral, PUT on a referral rejects a
\* status outside {Pending, Received, Completed}, rejects the status the
\* referral already has, and otherwise stores the status and assigns
\* completed_at only when the status is Completed.
C9_ReferralUpdateLikeTestUpdate ==
    [][\/ last'.op # "update_referral"
       \/ \A user \in UserIds, i \in 1..Len(referrals), status \in StatusInputs :
            \/ ~DoctorTechnicianOrAdmin(user, referrals[i])
            \/ IF status \notin TestStatus \/ status = referrals[i].status
               THEN last'.code = 400 /\ referrals' = referrals
               ELSE /\ last'.code = 200
                    /\ referrals'[i].status = status
                    /\ (referrals'[i].completed_at = now) <=> (status = COMPLETED)
                    /\ status # COMPLETED
                         => referrals'[i].completed_at = referrals[i].completed_at
            \/ ~UpdateReferralStatus(user, referrals[i].id, status)]_vars

\* C10: a successful update-test-status request changes the targeted
\* ReferralTest only: the Referral rows (status, completed_at, updated_at) and
\* every other ReferralTest stay as they were; a successful PUT on a referral
\* leaves every ReferralTest row as it was.
C10_NoAggregation ==
    [][/\ \/ last'.op # "update_test_status"
          \/ last'.code # 200
          \/ \A id \in 1..Len(referral_tests) :
               \/ /\ referrals' = referrals
                  /\ Len(referral_tests') = Len(referral_tests)
                  /\ \A j \in 1..Len(referral_tests) :
                       j # id => referral_tests'[j] = referral_tests[j]
               \/ \A user \in UserIds, status \in StatusInputs :
                    ~UpdateTestStatus(user, id, status)
       /\ \/ last'.op # "update_referral"
          \/ last'.code # 200
          \/ referral_tests' = referral_tests]_vars

\* one of the two tests of a referral was completed: its sibling and the
\* referral are still Pending and untouched
C10_Witness ==
    /\ last.op = "update_test_status"
    /\ last.code = 200
    /\ Len(referral_tests) = 2
    /\ referral_tests[1].referral = referral_tests[2].referral
    /\ referral_tests[1].status = COMPLETED
    /\ referral_tests[2].status = PENDING
    /\ referral_tests[2].updated_at = referral_tests[2].created_at
    /\ ReferralOf(referral_tests[1]).status = PENDING
    /\ ReferralOf(referral_tests[1]).updated_at = ReferralOf(referral_tests[1]).referred_at

----------------------------------------------------------------------------
(* Properties of the referral lists *)

\* the least number of pages of the given size that hold total referrals,
\* and one page when there is none
PagesFor(total, size) ==
    IF total = 0 THEN 1
    ELSE CHOOSE k \in 1..total : k * size >= total /\ (k - 1) * size < total

\* the response is the page the parameters ask for: page 1 of 10 by default,
\* the last page when the number is not one of 1..total_pages
PageReturned(response, page_number_param, page_size_param) ==
    LET size == IF page_size_param = <<>> THEN 10 ELSE page_size_param[1]
        number == IF page_number_param = <<>> THEN 1 ELSE page_number_param[1]
        total_pages == PagesFor(response.data.total_referrals, size)
    IN  /\ response.code = 200
        /\ response.data.page_size = size
        /\ response.data.total_pages = total_pages
        /\ response.data.current_page = IF number \in 1..total_pages THEN number
                                        ELSE total_pages
        /\ Len(response.data.referrals) <= size

\* the request was a list request of a user of the list's type with a
\* positive (or no) page_size
PageAsked(op, user_type) ==
    /\ last.op = op
    /\ users[last.request.user].user_type = user_type
    /\ last.request.page_size = <<>> \/ last.request.page_size[1] > 0

\* C12: the practitioner list answers a practitioner, and the technician list
\* a lab technician, for every integer page_number and positive page_size with
\* 200 and a page: page_number defaults to 1 and page_size to 10,
\* total_pages is max(1, ceil(total_referrals / page_size)), current_page is
\* the page asked for when it is one of 1..total_pages and total_pages when it
\* is zero, negative or too large, and at most page_size referrals are returned.
C12_ListPagination ==
    /\ PageAsked("practitioner_referrals", MEDICAL_PRACTITIONER)
         => PageReturned(last, last.request.page_number, last.request.page_size)
    /\ PageAsked("technician_referrals", LAB_TECHNICIAN)
         => PageReturned(last, last.request.page_number, last.request.page_size)

\* what C12 says of the practitioner list alone
PractitionerListPagination ==
    PageAsked("practitioner_referrals", MEDICAL_PRACTITIONER)
         => PageReturned(last, last.request.page_number, last.request.page_size)

\* the texts of a Referral row that a search looks into
SearchedTexts(r) ==
    {patients[r.patient].full_name_or_id,
     branches[r.facility_branch].name,
     facilities[branches[r.facility_branch].facility].name,
     users[r.referred_by].full_name}
    \cup {tests[rt.test].name : rt \in {x \in Range(referral_tests) : x.referral = r.id}}
    \cup {test_types[tests[rt.test].test_type].name :
            rt \in {x \in Range(referral_tests) :
                        x.referral = r.id /\ tests[x.test].test_type # NoId}}

\* the text has the query as a substring when case is ignored
HasIgnoringCase(text, query) ==
    \E start \in 0..(Len(text) - Len(query)) :
        \A k \in 1..Len(query) : lower_char(text[start + k]) = lower_char(query[k])

\* the referrals of the caller of the last list request: the practitioner's
\* own, or those of the technician's branches
ReferralsOfCaller ==
    IF last.op = "practitioner_referrals"
    THEN {r \in Range(referrals) : r.referred_by = last.request.user}
    ELSE {r \in Range(referrals) :
            r.facility_branch \in get_user_branches(last.request.user).branches}

\* the request has a search_query, and no searched text of a referral of the
\* caller has it
NothingMatches ==
    /\ last.request.search_query # <<>>
    /\ \A r \in ReferralsOfCaller :
         \A text \in SearchedTexts(r) :
            ~HasIgnoringCase(text, last.request.search_query)

EmptyListReturned ==
    /\ last.code = 200
    /\ last.data.referrals = <<>>
    /\ last.data.total_referrals = 0

\* C13: a list request of a practitioner (practitioner list) or of a lab
\* technician (technician list) whose search_query is a substring, case
\* ignored, of no patient, branch, facility, doctor, test or test-type name of
\* the caller's referrals is answered with 200, an empty referrals list and
\* total_referrals = 0.
C13_SearchWithoutMatch ==
    /\ PageAsked("practitioner_referrals", MEDICAL_PRACTITIONER) /\ NothingMatches
         => EmptyListReturned
    /\ PageAsked("technician_referrals", LAB_TECHNICIAN) /\ NothingMatches
         => EmptyListReturned

\* what C13 says of the practitioner list alone
PractitionerSearchWithoutMatch ==
    PageAsked("practitioner_referrals", MEDICAL_PRACTITIONER) /\ NothingMatches
         => EmptyListReturned

\* a practitioner with two referrals asked for a page beyond the last, one
\* per page, and got page 2 of 2
PractitionerLastPageReached ==
    /\ last.op = "practitioner_referrals"
    /\ last.code = 200
    /\ last.request.page_number = <<MaxListed + 1>>
    /\ last.data.total_referrals > 1
    /\ last.data.current_page = last.data.total_pages
    /\ last.data.current_page > 1
    /\ Len(last.data.referrals) = 1

\* a practitioner with referrals searched a text none of them has
PractitionerSearchedInVain ==
    /\ last.op = "practitioner_referrals"
    /\ last.code = 200
    /\ last.request.search_query # <<>>
    /\ \E r \in Range(referrals) : r.referred_by = last.request.user
    /\ last.data.total_referrals = 0

\* a search in another case found one of the two referrals of a practitioner
PractitionerSearchFound ==
    /\ last.op = "practitioner_referrals"
    /\ last.code = 200
    /\ last.request.search_query # <<>>
    /\ last.data.total_referrals = 1
    /\ Cardinality({r \in Range(referrals) : r.referred_by = last.request.user}) = 2

----------------------------------------------------------------------------
(* Properties of registration and login *)

\* the users that register requests created
Registered == DOMAIN users \ DOMAIN InitUsers

\* the users whose phone number is the one of the request handled last
WithPhoneOfRequest ==
    {u \in DOMAIN users : <<users[u].phone_number>> = last.request.phone_number}

\* the register request handled last has all its fields, and each of its
\* passwords is strong
RegisterFieldsValid ==
    /\ \A f \in {"full_name", "phone_number", "password", "confirm_password"} :
            last.request[f] # <<>>
    /\ validate_strong_password(last.request.password[1]) = ""
    /\ validate_strong_password(last.request.confirm_password[1]) = ""

UniquePhoneNumbers ==
    \A u, v \in DOMAIN users :
        u # v /\ users[u].phone_number # NoUser
            => users[u].phone_number # users[v].phone_number

RegisteredArePractitioners ==
    \A u \in Registered : users[u].user_type = MEDICAL_PRACTITIONER

\* a register request was refused and its phone number is registered (a
\* refused request stores nothing, so it was registered before the request)
RegisteredPhoneRefused ==
    /\ last.op = "register"
    /\ last.code # 201
    /\ WithPhoneOfRequest # {}

PhoneNumberError == \E e \in last.detail : e[1] = "phone_number"

RefusedRegisterCreatesNothing == last'.op = "register" /\ last'.code # 201 => users' = users

C16_RegisterSucceeds ==
    last.op = "register" /\ RegisterFieldsValid
        /\ last.request.password = last.request.confirm_password
    => \/ last.code # 201 /\ WithPhoneOfRequest # {}
       \/ /\ last.code = 201
          /\ WithPhoneOfRequest = {last.data[1]}
          /\ users[last.data[1]].full_name = last.request.full_name[1]

\* the login request handled last names a user and carries his password
CredentialsMatch ==
    /\ last.request.phone_number # <<>>
    /\ last.request.password # <<>>
    /\ \E u \in WithPhoneOfRequest : check_password(users[u], last.request.password[1])

InvalidCredentials ==
    {<<"phone_number_and_password", "Invalid phone number or password.">>}

LoginIssuesTokensIffMatch ==
    last.op = "login" =>
        /\ last.data # <<>> <=> CredentialsMatch
        /\ last.data # <<>> =>
                /\ last.code = 200
                /\ \E u \in WithPhoneOfRequest : last.data[1] = tokens_for_user(u)
        /\ last.data = <<>> => last.code = 400

\* a login with a phone number and a password that do not match gets the
\* same error whether or not the phone number is known
SameErrorForUnknownAndWrong ==
    last.op = "login" /\ last.request.phone_number # <<>> /\ last.request.password # <<>>
        /\ ~CredentialsMatch
    => last.detail = InvalidCredentials

FailedLoginKeepsLastLogin ==
    last'.op = "login" /\ last'.code # 200
    => /\ DOMAIN users' = DOMAIN users
       /\ \A u \in DOMAIN users : users'[u].last_login = users[u].last_login

----------------------------------------------------------------------------
(* Properties of the facility admin's endpoints *)

FacilityOps == {"add_branch", "deactivate_branch", "add_lab_technician"}

\* the facilities of the branch of the caller's first assignment (the one
\* with the lowest primary key): one facility, or none without assignment
FirstFacility(user) ==
    {branches[bt.branch].facility :
        bt \in {a \in branch_technicians :
                    /\ a.user = user
                    /\ \A other \in branch_technicians :
                            other.user = user => a.id <= other.id}}

\* the caller is the admin of the facility of his first assignment
AdminOfFirstFacility(user) ==
    FirstFacility(user) # {} /\ \A f \in FirstFacility(user) : facilities[f].admin = user

\* a branch of the caller's facility has the name
NameUsed(user, name) ==
    \E b \in DOMAIN branches :
        branches[b].name = name /\ branches[b].facility \in FirstFacility(user)

\* the branch id names a branch of the caller's facility
OwnBranch(user, branch_id) ==
    branch_id \in DOMAIN branches /\ branches[branch_id].facility \in FirstFacility(user)

UniqueBranchNames ==
    \A b, c \in DOMAIN branches :
        b # c /\ branches[b].facility = branches[c].facility
            => branches[b].name # branches[c].name

\* a step that stores a branch is an add-branch request, answered 201, of the
\* admin of the facility of the caller's first assignment, with a name that
\* no branch of the facility had; it stores that one branch
BranchAddedByAdminOnly ==
    branches' # branches /\ DOMAIN branches' # DOMAIN branches
    => /\ last'.op = "add_branch"
       /\ last'.code = 201
       /\ AdminOfFirstFacility(last'.request.user)
       /\ last'.request.name # <<>>
       /\ ~NameUsed(last'.request.user, last'.request.name[1])
       /\ branches' = Append(branches,
                             [facility |-> CHOOSE f \in FirstFacility(last'.request.user) : TRUE,
                              name |-> last'.request.name[1], is_active |-> TRUE])

\* a request of a caller who is not that admin, or with a missing or used
\* name, is answered with an error and stores no branch, as does every
\* add-branch request answered with an error
RefusedAddBranchStoresNothing ==
    last'.op = "add_branch"
    => /\ last'.code # 201 => branches' = branches
       /\ /\ users[last'.request.user].is_active
          /\ \/ ~AdminOfFirstFacility(last'.request.user)
             \/ last'.request.name = <<>>
             \/ NameUsed(last'.request.user, last'.request.name[1])
          => last'.code = 400 /\ branches' = branches

\* C18: a branch is added only when the caller is the admin of the facility
\* of the caller's first branch assignment and no branch of that facility
\* has the name; no two branches of one facility have the same name; and a
\* refused request (non-admin caller, duplicate or missing name) creates no
\* branch.
C18_AddBranch ==
    /\ []UniqueBranchNames
    /\ [][BranchAddedByAdminOnly /\ RefusedAddBranchStoresNothing]_vars

\* the admin of facility 2 added a branch with the name of a branch of
\* facility 1
C18_Witness ==
    /\ last.op = "add_branch"
    /\ last.code = 201
    /\ \E b \in DOMAIN branches :
            /\ b # last.data[1]
            /\ branches[b].name = branches[last.data[1]].name
            /\ branches[b].facility # branches[last.data[1]].facility

\* a deactivation that succeeds is one of the facility's admin on a branch of
\* his facility; it clears is_active of that branch and changes no other
\* row of any table
DeactivationByAdminOnly ==
    last'.op = "deactivate_branch" /\ last'.code = 200
    => /\ AdminOfFirstFacility(last'.request.user)
       /\ OwnBranch(last'.request.user, last'.request.branch_id)
       /\ branches' = [branches EXCEPT ![last'.request.branch_id].is_active = FALSE]
       /\ UNCHANGED <<users, facilities, branch_technicians, test_types, tests, dataVars>>

RefusedDeactivationChangesNothing ==
    last'.op = "deactivate_branch"
    => /\ last'.code # 200 => branches' = branches
       /\ /\ users[last'.request.user].is_active
          /\ \/ ~AdminOfFirstFacility(last'.request.user)
             \/ ~OwnBranch(last'.request.user, last'.request.branch_id)
          => last'.code = 400 /\ branches' = branches

\* no step removes a branch or sets is_active back to true
NeverReactivated ==
    /\ DOMAIN branches \subseteq DOMAIN branches'
    /\ \A b \in DOMAIN branches : ~branches[b].is_active => ~branches'[b].is_active

\* C19: deactivating a branch succeeds only for the facility admin and a
\* branch of the caller's own facility; it sets that branch's is_active to
\* false and removes neither the branch nor referrals or technician
\* assignments; a non-admin caller or a branch of another facility is
\* refused with the branch unchanged; no operation sets is_active back to true.
C19_DeactivateBranch ==
    [][DeactivationByAdminOnly /\ RefusedDeactivationChangesNothing /\ NeverReactivated]_vars

\* a branch with a referral and a technician was deactivated
C19_Witness ==
    /\ last.op = "deactivate_branch"
    /\ last.code = 200
    /\ ~branches[last.request.branch_id].is_active
    /\ \E bt \in branch_technicians : bt.branch = last.request.branch_id
    /\ \E i \in 1..Len(referrals) : referrals[i].facility_branch = last.request.branch_id

\* the phone number of the request (NULL when it has none) is a user's
PhoneUsed(phone_number) ==
    \E u \in DOMAIN users :
        users[u].phone_number = (IF phone_number = <<>> THEN NoUser ELSE phone_number[1])

\* a step that stores a user or an assignment is an add-lab-technician
\* request, answered 201, of the admin of his facility, with an unused phone
\* number and a branch of that facility; it stores one Lab Technician and
\* the one assignment of that user to that branch
TechnicianAddedByAdminOnly ==
    DOMAIN users' # DOMAIN users \/ branch_technicians' # branch_technicians
    => /\ last'.op = "add_lab_technician"
       /\ last'.code = 201
       /\ AdminOfFirstFacility(last'.request.user)
       /\ ~PhoneUsed(last'.request.phone_number)
       /\ OwnBranch(last'.request.user, last'.request.branch_id[1])
       /\ \E id \in DOMAIN users' \ DOMAIN users :
            /\ DOMAIN users' = DOMAIN users \cup {id}
            /\ users'[id].user_type = LAB_TECHNICIAN
            /\ users'[id].full_name = last'.request.full_name[1]
            /\ \E bt \in branch_technicians' \ branch_technicians :
                /\ branch_technicians' = branch_technicians \cup {bt}
                /\ bt.user = id
                /\ bt.branch = last'.request.branch_id[1]

RefusedTechnicianStoresNothing ==
    last'.op = "add_lab_technician" /\ last'.code # 201
    => DOMAIN users' = DOMAIN users /\ branch_technicians' = branch_technicians

\* C20: a lab technician is added only when the caller is the admin of their
\* facility, the phone number is unused and branch_id names a branch of the
\* caller's facility; a success creates exactly one Lab Technician user and
\* exactly one BranchTechnician row linking that user to that branch; a
\* refused request creates neither.
C20_AddLabTechnician ==
    [][TechnicianAddedByAdminOnly /\ RefusedTechnicianStoresNothing]_vars

\* a technician was added to a branch of the admin's facility
C20_Witness ==
    /\ last.op = "add_lab_technician"
    /\ last.code = 201
    /\ users[last.data[1]].user_type = LAB_TECHNICIAN
    /\ \E bt \in branch_technicians :
            bt.user = last.data[1] /\ bt.branch = last.request.branch_id[1]

\* the forced-password-change case: the caller of a BaseAPIView endpoint is
\* inactive and no superuser
ForcedPasswordChange ==
    /\ last.op \in FacilityOps
    /\ ~users[last.request.user].is_active
    /\ ~users[last.request.user].is_superuser

RequestFails ==
    \/ /\ last'.op = "add_branch"
       /\ \/ ~AdminOfFirstFacility(last'.request.user)
          \/ last'.request.name = <<>>
          \/ NameUsed(last'.request.user, last'.request.name[1])
    \/ /\ last'.op = "deactivate_branch"
       /\ \/ ~AdminOfFirstFacility(last'.request.user)
          \/ ~OwnBranch(last'.request.user, last'.request.branch_id)
    \/ /\ last'.op = "add_lab_technician"
       /\ \/ ~AdminOfFirstFacility(last'.request.user)
          \/ PhoneUsed(last'.request.phone_number)
          \/ ~OwnBranch(last'.request.user, last'.request.branch_id[1])
          \/ validate_strong_password(last'.request.password[1]) # ""

FailuresAre400 ==
    last'.op \in FacilityOps /\ users[last'.request.user].is_active /\ RequestFails
    => last'.code = 400

\* a GET on a stored referral by a caller without permission is answered 403
ReferralPermissionIs403 ==
    \A user \in UserIds, i \in 1..Len(referrals) :
        GetReferral(user, referrals[i].id) /\ ~DoctorTechnicianOrAdmin(user, referrals[i])
        => last'.code = 403 /\ last'.detail = PermissionDeniedDetail

\* 403 comes from the permission check of a referral or from the
\* forced-password-change check
Only403 ==
    last.code = 403
    => \/ last.op = "get_referral" /\ last.detail = PermissionDeniedDetail
       \/ ForcedPasswordChange

CompletedAtIffCompleted ==
    \A i \in 1..Len(referral_tests) :
        (referral_tests[i].completed_at # NoTime)
            <=> (referral_tests[i].status = COMPLETED)

\* C27: an update-test-status request keeps "completed_at is non-null if and
\* only if the status is Completed" true of every ReferralTest; new tests
\* start Pending with a null completed_at, so the equivalence would hold
\* after any sequence of such requests.
C27_CompletedAtInvariant ==
    [][(last'.op = "update_test_status" /\ CompletedAtIffCompleted)
            => CompletedAtIffCompleted']_vars

\* ---------------------------------------------------------------------
\* Creating a referral: the caller and the rows created
\* ---------------------------------------------------------------------

\* the rows a step appended to a table
Added(before, after) == {after[i] : i \in (Len(before) + 1)..Len(after)}

\* C28: a create-referral request of a caller who is not a Medical
\* Practitioner is rejected with 400 and stores nothing; a successful request
\* stores one Referral with status Pending, a null completed_at and
\* referred_by equal to the caller, and every ReferralTest it stores belongs
\* to that Referral, is Pending and has a null completed_at.
C28_CreateByPractitionerOnly ==
    [][\/ last'.op # "create_referral"
       \/ /\ last'.code = 400
          /\ UNCHANGED dataVars
       \/ \A user \in UserIds, branch_id \in BranchIdInputs,
             test_ids \in TestsInputs, name \in PatientInputs :
            CreateReferral(user, branch_id, test_ids, name) =>
                /\ users[user].user_type # MEDICAL_PRACTITIONER
                     => /\ last'.code = 400
                        /\ UNCHANGED dataVars
                /\ last'.code = 201
                     => /\ users[user].user_type = MEDICAL_PRACTITIONER
                        /\ Len(referrals') = Len(referrals) + 1
                        /\ \A r \in Added(referrals, referrals') :
                             /\ r.status = PENDING
                             /\ r.completed_at = NoTime
                             /\ r.referred_by = user
                        /\ Added(referral_tests, referral_tests') # {}
                        /\ \A rt \in Added(referral_tests, referral_tests') :
                             /\ rt.status = PENDING
                             /\ rt.completed_at = NoTime
                             /\ \E r \in Added(referrals, referrals') :
                                  rt.referral = r.id]_vars

\* the second practitioner created a referral, and a lab technician was
\* refused afterwards
C28_Witness ==
    /\ last.op = "create_referral"
    /\ last.code = 400
    /\ last.detail = "Only medical practitioners can create referrals."
    /\ \E i \in 1..Len(referrals) :
         /\ referrals[i].referred_by = "dr_b"
         /\ \E j \in 1..Len(referral_tests) :
              referral_tests[j].referral = referrals[i].id

\* the tests of the ReferralTest rows a step stored, one element per row
AddedTests(before, after) ==
    [i \in 1..(Len(after) - Len(before)) |-> after[Len(before) + i].test]

\* C24: for a create-referral request of a Medical Practitioner that names a
\* stored branch, the serializer refuses the request (400, test_id, nothing
\* stored) exactly when no requested id is a test of the branch's facility,
\* the empty list included; a successful request stores exactly one
\* ReferralTest of the new Referral for each distinct requested id that is a
\* test of the branch's facility, and none for any other id.
C24_OneReferralTestPerFacilityTest ==
    [][\/ last'.op # "create_referral"
       \/ \A user \in UserIds, branch_id \in BranchIdInputs :
            \/ users[user].user_type # MEDICAL_PRACTITIONER
            \/ branch_id \notin DOMAIN branches
            \/ \A test_ids \in TestsInputs, name \in PatientInputs :
                 CreateReferral(user, branch_id, test_ids, name) =>
                    LET wanted == {t \in Range(test_ids) :
                                     /\ t \in DOMAIN tests
                                     /\ tests[t].test_type # NoId
                                     /\ test_types[tests[t].test_type].facility
                                          = branches[branch_id].facility}
                        stored == AddedTests(referral_tests, referral_tests')
                    IN  /\ (wanted = {})
                             <=> (last'.code = 400 /\ last'.detail = "test_id")
                        /\ wanted = {} => UNCHANGED dataVars
                        /\ last'.code = 201
                             => /\ Range(stored) = wanted
                                /\ Len(stored) = Cardinality(wanted)
                                /\ \A i \in (Len(referral_tests) + 1)..Len(referral_tests') :
                                     referral_tests'[i].referral = last'.data]_vars

\* a request that named test 2 twice, or test 2 and an unknown id, stored a
\* single ReferralTest, and a request without a test of the branch's
\* facility was refused afterwards
C24_Witness ==
    /\ last.op = "create_referral"
    /\ last.code = 400
    /\ last.detail = "test_id"
    /\ Len(referral_tests) = 1
    /\ referral_tests[1].test = 2

\* ---------------------------------------------------------------------
\* The practitioner list: whose referrals, and the totals
\* ---------------------------------------------------------------------

\* the referral matches the search of the last list request
MatchesSearch(r) ==
    \/ last.request.search_query = <<>>
    \/ \E text \in SearchedTexts(r) :
         HasIgnoringCase(text, last.request.search_query)

\* C26: the practitioner list refuses every caller who is not a Medical
\* Practitioner; each referral of a returned page was referred by the caller,
\* with or without a search_query, and total_referrals is the number of the
\* caller's referrals that match the search.
C26_PractitionerListOwnReferrals ==
    last.op = "practitioner_referrals" =>
        /\ users[last.request.user].user_type # MEDICAL_PRACTITIONER
             => /\ last.code = 400
                /\ last.detail = "You do not have permission to view these referrals."
        /\ last.code = 200 =>
             /\ \A id \in Range(last.data.referrals) :
                  \E r \in Range(referrals) :
                     r.id = id /\ r.referred_by = last.request.user
             /\ last.data.data_summary.total_referrals
                  = Cardinality({r \in Range(referrals) :
                                    r.referred_by = last.request.user /\ MatchesSearch(r)})

\* dr_a, who referred two of the three stored referrals, searched for "jO"
\* and got the one referral of patient Joe
C26_Witness ==
    /\ last.op = "practitioner_referrals"
    /\ last.code = 200
    /\ last.request.user = "dr_a"
    /\ last.request.search_query # <<>>
    /\ Len(referrals) = 3
    /\ Len(last.data.referrals) = 1
    /\ last.data.data_summary.total_referrals = 1

\* C29: in every response of the practitioner list total_referrals of
\* data_summary is total_completed + total_pending + total_received, and is
\* total_referrals of the pagination part.
C29_SummaryTotals ==
    (last.op = "practitioner_referrals" /\ last.code = 200) =>
        /\ last.data.data_summary.total_referrals
             = last.data.data_summary.total_completed
                 + last.data.data_summary.total_pending
                 + last.data.data_summary.total_received
        /\ last.data.data_summary.total_referrals = last.data.total_referrals

\* dr_a got a page of one of a Pending and a Completed referral
C29_Witness ==
    /\ last.op = "practitioner_referrals"
    /\ last.code = 200
    /\ last.data.data_summary.total_completed = 1
    /\ last.data.data_summary.total_pending = 1
    /\ last.data.data_summary.total_referrals = 2
    /\ Len(last.data.referrals) = 1

\* C25: the technician list refuses every caller who is not a Lab
\* Technician, and answers a Lab Technician (with a positive or no page_size)
\* with the referrals of the branches that get_user_branches computes for the
\* caller: total_referrals is the number of referrals at those branches that
\* match the search, each referral of the page is at one of those branches,
\* and nothing is returned when the caller has no branch.
C25_TechnicianListBranches ==
    last.op = "technician_referrals" =>
        /\ users[last.request.user].user_type # LAB_TECHNICIAN
             => /\ last.code = 400
                /\ last.detail = "You do not have permission to view these referrals."
        /\ PageAsked("technician_referrals", LAB_TECHNICIAN) =>
             /\ last.code = 200
             /\ \A id \in Range(last.data.referrals) :
                  \E r \in Range(referrals) :
                     /\ r.id = id
                     /\ r.facility_branch
                          \in get_user_branches(last.request.user).branches
             /\ last.data.total_referrals
                  = Cardinality({r \in Range(referrals) :
                        /\ r.facility_branch
                             \in get_user_branches(last.request.user).branches
                        /\ MatchesSearch(r)})

\* ---------------------------------------------------------------------
\* Two update-test-status requests at the same time
\* ---------------------------------------------------------------------

\* an update-test-status request that has not started: where it is (pc), its
\* input, the ReferralTest instance it read and the HTTP status
IdleUpdate == [pc |-> "idle", user |-> "", id |-> NoId, new_status |-> "",
               instance |-> <<>>, status |-> NoId]

\* UpdateTestStatusView.put up to "Update status": the SELECT of the
\* ReferralTest and the checks on the instance that was read
UpdateTestStatusGet(p, user, referral_test_id, new_status) ==
    /\ procs[p].pc = "idle"
    /\ UNCHANGED <<catalogVars, dataVars, now, last>>
    /\ IF test_status_error(user, referral_test_id, new_status) # ""
       THEN procs' = [procs EXCEPT ![p] =
                        [@ EXCEPT !.pc = "done", !.user = user,
                                  !.id = referral_test_id,
                                  !.new_status = new_status, !.status = 400]]
       ELSE procs' = [procs EXCEPT ![p] =
                        [@ EXCEPT !.pc = "save", !.user = user,
                                  !.id = referral_test_id,
                                  !.new_status = new_status,
                                  !.instance = <<referral_tests[referral_test_id]>>]]

\* UpdateTestStatusView.put from "Update status": the assignments to the
\* instance read before, and referral_test.save(), an UPDATE of every column
\* of the row
UpdateTestStatusSave(p) ==
    /\ procs[p].pc = "save"
    /\ UNCHANGED <<catalogVars, patients, referrals, last>>
    /\ now' = now + 1
    /\ LET referral_test == procs[p].instance[1]
           referral == referrals[ReferralIndex(referral_test.referral)]
       IN  IF clean(referral, referral_test.test)
           THEN /\ referral_tests' =
                     [referral_tests EXCEPT ![procs[p].id] =
                         set_test_status(referral_test, procs[p].new_status, now)]
                /\ Finish(p, 200)
           ELSE /\ UNCHANGED referral_tests
                /\ Finish(p, 500)

\* one referral of dr_a at branch 1 with one test, which is Pending or was
\* completed at time 0
InitUpdate ==
    /\ users = InitUsers
    /\ InitCatalog
    /\ patients = <<[full_name_or_id |-> Joe]>>
    /\ referrals = <<new_referral(RandomCode(1), 1, 1, "dr_a", 0)>>
    /\ \E completed \in BOOLEAN :
         referral_tests =
            <<IF completed
              THEN set_test_status(new_referral_test(referrals[1], 1, 0), COMPLETED, 0)
              ELSE new_referral_test(referrals[1], 1, 0)>>
    /\ now = 1
    /\ last = NoResponse
    /\ procs = [p \in Procs |-> IdleUpdate]

UpdateTestStatusGetStep ==
    \E p \in Procs, user \in {"dr_a", "tech", "dr_b"}, referral_test_id \in {1, 2},
       new_status \in StatusInputs :
        UpdateTestStatusGet(p, user, referral_test_id, new_status)

UpdateTestStatusSaveStep == \E p \in Procs : UpdateTestStatusSave(p)

NextUpdate ==
    \/ UpdateTestStatusGetStep
    \/ UpdateTestStatusSaveStep

SpecUpdate == InitUpdate /\ [][NextUpdate]_vars

\* both requests ended, and both were for ReferralTest 1
BothEnded ==
    /\ \A p \in Procs : procs[p].pc = "done" /\ procs[p].id = 1

\* of two requests with the same new status at most one succeeded, and the
\* other was rejected
AtMostOneSucceeds ==
    (BothEnded /\ procs["p1"].new_status = procs["p2"].new_status)
        => \E p \in Procs : procs[p].status = 400

\* after two successful requests with different new statuses completed_at
\* is non-null exactly when the stored status is Completed
CompletedAtAfterBoth ==
    (/\ BothEnded
     /\ procs["p1"].new_status # procs["p2"].new_status
     /\ \A p \in Procs : procs[p].status = 200)
        => CompletedAtIffCompleted

\* C30: when two update-test-status requests for the same ReferralTest run
\* at the same time with the same new status, at most one succeeds and the
\* other is rejected as already in that state; when they set different
\* statuses, the stored completed_at is non-null exactly when the status
\* stored in the end is Completed.
C30_ConcurrentUpdates == AtMostOneSucceeds /\ CompletedAtAfterBoth

\* ---------------------------------------------------------------------
\* Changing the password
\* ---------------------------------------------------------------------

\* a second strong password
Pass456 == <<"P", "a", "s", "s", "4", "5", "6", "?">>

\* ChangePasswordSerializer.validate if it did not compare new_password with
\* confirm_new_password
change_password_validate_without_match(user, data) ==
    IF ~check_password(users[user], data.current_password[1])
    THEN {<<"current_password", "Current password is incorrect.">>}
    ELSE {}

\* ChangePasswordSerializer.validate: the error it raises, {} when it returns
\* attrs
change_password_validate(user, data) ==
    IF ~check_password(users[user], data.current_password[1])
    THEN {<<"current_password", "Current password is incorrect.">>}
    ELSE IF data.new_password # data.confirm_new_password
    THEN {<<"confirm_new_password", "New password and confirm password do not match.">>}
    ELSE {}

\* ChangePasswordSerializer.is_valid: serializer.errors; the validators of
\* the three fields run before validate
change_password_errors(user, data) ==
    LET errors ==
            field_errors([current_password |-> password_field(data.current_password),
                          new_password |-> password_field(data.new_password),
                          confirm_new_password |->
                              password_field(data.confirm_new_password)])
    IN  IF errors # {} THEN errors ELSE change_password_validate(user, data)

\* user.set_password(raw)
set_password(user, raw) == [user EXCEPT !.password = make_password(raw)]

\* POST /medics/change-password: ChangePasswordSerializer with the caller in
\* its context, is_valid(), save(); the errors of the serializer are a 400
ChangePassword(user, current_password, new_password, confirm_new_password) ==
    LET data == [current_password |-> current_password,
                 new_password |-> new_password,
                 confirm_new_password |-> confirm_new_password]
        errors == change_password_errors(user, data)
    IN  /\ authenticated(user)
        /\ IF errors # {}
           THEN /\ last' = [request |-> [user |-> user] @@ data]
                           @@ Response("change_password", 400, errors, <<>>)
                /\ UNCHANGED users
           ELSE /\ users' = [users EXCEPT ![user] = set_password(@, new_password[1])]
                /\ last' = [request |-> [user |-> user] @@ data]
                           @@ Response("change_password", 200,
                                       {<<"message", "Password changed successfully.">>},
                                       <<>>)
        /\ UNCHANGED <<facilities, branches, branch_technicians, test_types, tests,
                       dataVars, now, procs>>

\* the change-password requests of two users: current_password missing, the
\* password of the fixtures or the second password; a new password and a
\* confirmation that are one of the two or have no upper-case letter
ChangePasswordStep ==
    \E user \in {"dr_a", "tech"},
       current_password \in {<<>>, <<Pass123>>, <<Pass456>>},
       new_password \in {<<Pass123>>, <<Pass456>>, <<lower(Pass456)>>},
       confirm_new_password \in {<<Pass123>>, <<Pass456>>, <<lower(Pass456)>>} :
        ChangePassword(user, current_password, new_password, confirm_new_password)

\* the logins of the two users with the two passwords
PasswordLoginStep ==
    \E phone_number \in {<<"0201">>, <<"0203">>}, password \in {<<Pass123>>, <<Pass456>>} :
        Login(phone_number, password)

NextPassword ==
    \/ ChangePasswordStep
    \/ PasswordLoginStep

SpecPassword == Init /\ [][NextPassword]_vars

\* the caller of the last change-password request, its current_password
\* matches the stored password, and new_password equals confirm_new_password
CurrentPasswordMatches ==
    /\ last'.request.current_password # <<>>
    /\ check_password(users[last'.request.user], last'.request.current_password[1])
NewPasswordConfirmed == last'.request.new_password = last'.request.confirm_new_password

\* a login of the caller with new_password, and one with current_password,
\* succeeds in the state after the request
LoginWithNewSucceeds ==
    (login_errors([phone_number |-> <<users[last.request.user].phone_number>>,
                   password |-> last.request.new_password]) = {})'
LoginWithOldSucceeds ==
    (login_errors([phone_number |-> <<users[last.request.user].phone_number>>,
                   password |-> last.request.current_password]) = {})'

is_staff(user) == FALSE

\* the names a lookup on Facility can start with: its fields and the
\* related_name of the foreign keys that point to it
facility_lookups ==
    {"id", "pk", "name", "contact_number", "admin", "admin_id", "created_at",
     "branches", "test_types"}

\* AddTestTypes.post: the two checks of the caller, and the query
\* Facility.objects.filter(users__id=user.id), which names a relation that
\* Facility does not have and raises FieldError; nothing after it is reached
AddTestTypes(user, name, test_names) ==
    /\ authenticated(user)
    /\ UNCHANGED <<catalogVars, dataVars, now, procs>>
    /\ last' =
         [request |-> [user |-> user, name |-> name, tests |-> test_names]] @@
         IF users[user].user_type # LAB_TECHNICIAN /\ ~is_staff(user)
         THEN Response("add_test_types", 400,
                       {<<"detail", "Unauthorized: Only Lab Technicians can add test types.">>},
                       <<>>)
         ELSE IF "users" \notin facility_lookups
         THEN Response("add_test_types", 500,
                       {<<"detail", "FieldError: Cannot resolve keyword 'users' into field.">>},
                       <<>>)
         ELSE Response("add_test_types", 200,
                       {<<"message", "Test type and tests added successfully">>}, <<>>)

\* the add-test-types requests: every user of the fixtures; no name, the name
\* of a test type of facility 1 in lower case and between spaces, a new
\* name; no test, one test, two tests of which one is a test of facility 1
AddTestTypesStep ==
    \E user \in DOMAIN InitUsers,
       name \in {<<>>, <<<<"B", "l", "o", "o", "d">>>>,
                 <<<<" ", "b", "l", "o", "o", "d", " ">>>>, <<<<"U", "r", "i", "n", "e">>>>,
                 <<<<"S", "c", "a", "n">>>>},
       test_names \in {<<>>, <<<<"p", "H">>>>, <<<<"C", "B", "C">>, <<"p", "H">>>>,
                       <<<<"E", "C", "G">>>>, <<<<"E", "C", "G">>, <<" ", "e", "c", "g">>>>} :
        AddTestTypes(user, name, test_names)

NextTestTypes == AddTestTypesStep

SpecTestTypes == Init /\ [][NextTestTypes]_vars

\* str.upper() and str.strip()
UpperChar(c) ==
    IF \E i \in 1..Len(ascii_lowercase) : ascii_lowercase[i] = c
    THEN ascii_uppercase[CHOOSE i \in 1..Len(ascii_lowercase) : ascii_lowercase[i] = c]
    ELSE c
RECURSIVE Stripped(_)
Stripped(text) ==
    IF text = <<>> THEN <<>>
    ELSE IF Head(text) = " " THEN Stripped(Tail(text))
    ELSE IF text[Len(text)] = " " THEN Stripped(SubSeq(text, 1, Len(text) - 1))
    ELSE text
\* the normalized form of a name: trimmed and upper-cased
Normalized(text) == [i \in 1..Len(Stripped(text)) |-> UpperChar(Stripped(text)[i])]

\* the test types of the facility whose normalized name is the given one
TestTypesNamed(facility, normalized_name) ==
    {tt \in DOMAIN test_types :
        /\ test_types[tt].facility = facility
        /\ Normalized(test_types[tt].name) = normalized_name}

\* no facility has two TestTypes with the same normalized name
UniqueTestTypeNames ==
    \A f \in DOMAIN facilities, tt \in DOMAIN test_types :
        test_types[tt].facility = f
            => TestTypesNamed(f, Normalized(test_types[tt].name)) = {tt}

\* an add-test-types request of a lab technician of a facility, with a name
\* and at least one test, is rejected and stores nothing when the facility
\* has a TestType with the normalized name, and otherwise succeeds and stores
\* the TestType under its normalized name, with one Test for each
\* normalized test name
AddTestTypesAnswered ==
    (/\ last'.op = "add_test_types"
     /\ users[last'.request.user].user_type = LAB_TECHNICIAN
     /\ facility_of_caller(last'.request.user) # NoId
     /\ last'.request.name # <<>>
     /\ last'.request.tests # <<>>)
        => LET facility == facility_of_caller(last'.request.user)
               normalized_name == Normalized(last'.request.name[1])
           IN  IF TestTypesNamed(facility, normalized_name) # {}
               THEN /\ last'.code = 400
                    /\ UNCHANGED <<test_types, tests>>
               ELSE /\ last'.code = 200
                    /\ \E tt \in DOMAIN test_types' \ DOMAIN test_types :
                         /\ test_types'[tt].facility = facility
                         /\ test_types'[tt].name = normalized_name
                         /\ {tests'[t].name : t \in {x \in DOMAIN tests' :
                                                        tests'[x].test_type = tt}}
                              = {Normalized(last'.request.tests[k]) :
                                    k \in DOMAIN last'.request.tests}

\* C22: after any sequence of add-test-types requests no facility has two
\* TestTypes with the same normalized (trimmed, upper-cased) name: a request
\* whose normalized name the caller's facility has is rejected and stores no
\* TestType and no Test, and any other request of a lab technician of a
\* facility succeeds and stores the TestType and its Tests under their
\* normalized names.
C22_AddTestTypes == []UniqueTestTypeNames /\ [][AddTestTypesAnswered]_vars

\* ---------------------------------------------------------------------
\* The user forms of the admin site
\* ---------------------------------------------------------------------

\* the facility the change form starts from: the one the user is admin of,
\* else the one of the user's first assignment (NoId when there is none)
user_facility(user) ==
    IF \E f \in DOMAIN facilities : facilities[f].admin = user
    THEN CHOOSE f \in DOMAIN facilities :
            /\ facilities[f].admin = user
            /\ \A g \in DOMAIN facilities : facilities[g].admin = user => f <= g
    ELSE facility_of_caller(user)

\* __init__ of the two forms: the queryset of the "branches" field, the
\* branches of the submitted facility, else those of initial_facility
branches_queryset(facility, initial_facility) ==
    {b \in DOMAIN branches :
        branches[b].facility = (IF facility # <<>> THEN facility[1] ELSE initial_facility)}

\* is_valid() of the two forms: the first error, "" when the form is valid
form_error(facility, branch_ids, queryset) ==
    IF facility # <<>> /\ facility[1] \notin DOMAIN facilities
    THEN "facility: Select a valid choice."
    ELSE IF ~(branch_ids \subseteq queryset)
    THEN "branches: Select a valid choice."
    ELSE IF branch_ids # {} /\ facility # <<>>
            /\ \E b \in branch_ids : branches[b].facility # facility[1]
    THEN "The branch does not belong to the selected facility."
    ELSE ""

\* branch assignments are created until the primary key reaches this bound
MaxAssignmentId == 4

\* the pk of the next BranchTechnician row
next_assignment_id(rows) ==
    1 + (IF rows = {} THEN 0
         ELSE CHOOSE n \in {bt.id : bt \in rows} : \A bt \in rows : bt.id <= n)

\* BranchTechnician.objects.create for each branch of the list, in its order
RECURSIVE create_assignments(_, _, _)
create_assignments(rows, user, todo) ==
    IF todo = <<>> THEN rows
    ELSE create_assignments(
            rows \cup {[id |-> next_assignment_id(rows), user |-> user,
                        branch |-> Head(todo)]},
            user, Tail(todo))

\* the selected branches in the order of the queryset (Meta.ordering: name)
RECURSIVE by_name(_)
by_name(branch_ids) ==
    IF branch_ids = {} THEN <<>>
    ELSE LET first == CHOOSE b \in branch_ids :
                        \A c \in branch_ids \ {b} :
                            \/ text_less(branches[b].name, branches[c].name)
                            \/ branches[b].name = branches[c].name /\ b < c
         IN  <<first>> \o by_name(branch_ids \ {first})

\* UserChangeForm: is_valid() and save(commit). form.save() has commit=True;
\* ModelAdmin.save_form, which the change view of the admin site calls, has
\* commit=False
AdminChangeUser(user, facility, branch_ids, commit) ==
    LET error == form_error(facility, branch_ids,
                            branches_queryset(facility, user_facility(user)))
        kept == {bt \in branch_technicians : bt.user # user}
    IN  /\ UNCHANGED <<users, facilities, branches, test_types, tests, dataVars, now,
                       procs>>
        /\ last' = [request |-> [user |-> user, facility |-> facility,
                                 branches |-> branch_ids, commit |-> commit]]
                   @@ Response("user_change_form", NoId, error, <<>>)
        /\ IF error = "" /\ commit /\ facility # <<>>
           THEN /\ next_assignment_id(kept) + Cardinality(branch_ids) - 1 <= MaxAssignmentId
                /\ branch_technicians' = create_assignments(kept, user, by_name(branch_ids))
           ELSE UNCHANGED branch_technicians

\* UserAddForm: is_valid() and save(), which saves whatever commit is
AdminAddUser(full_name, phone_number, facility, make_facility_admin, branch_ids) ==
    LET row == NewUser(full_name, phone_number, LAB_TECHNICIAN, Pass123)
        error == IF phone_number_exists(phone_number)
                 THEN "phone_number: User with this Phone number already exists."
                 ELSE form_error(facility, branch_ids, branches_queryset(facility, NoId))
    IN  /\ UNCHANGED <<branches, test_types, tests, dataVars, now, procs>>
        /\ IF error # ""
           THEN /\ last' = [request |-> [facility |-> facility, branches |-> branch_ids]]
                           @@ Response("user_add_form", NoId, error, <<>>)
                /\ UNCHANGED <<users, facilities, branch_technicians>>
           ELSE IF ~user_insert_ok(row)
           THEN /\ last' = [request |-> [facility |-> facility, branches |-> branch_ids]]
                           @@ Response("user_add_form", 500, "IntegrityError", <<>>)
                /\ UNCHANGED <<users, facilities, branch_technicians>>
           ELSE /\ Cardinality(DOMAIN users \ DOMAIN InitUsers) < MaxCreated
                /\ next_assignment_id(branch_technicians) + Cardinality(branch_ids) - 1
                      <= MaxAssignmentId
                /\ users' = (uuid4 :> row) @@ users
                /\ facilities' = IF facility # <<>> /\ make_facility_admin
                                 THEN [facilities EXCEPT ![facility[1]].admin = uuid4]
                                 ELSE facilities
                /\ branch_technicians' =
                     create_assignments(branch_technicians, uuid4, by_name(branch_ids))
                /\ last' = [request |-> [facility |-> facility, branches |-> branch_ids]]
                           @@ Response("user_add_form", NoId, "", <<uuid4>>)

\* the fixtures of the forms: facility 1 with the branches Main and West,
\* facility 2 with the branch East, tech at Main and adm_b at East
InitAdmin ==
    /\ users = InitUsers
    /\ facilities = (1 :> [name |-> <<"L", "a", "b">>, admin |-> "adm"])
                    @@ (2 :> [name |-> <<"M", "e", "d">>, admin |-> "adm_b"])
    /\ branches = (1 :> [facility |-> 1, name |-> <<"M", "a", "i", "n">>,
                         is_active |-> TRUE])
                  @@ (2 :> [facility |-> 2, name |-> <<"E", "a", "s", "t">>,
                            is_active |-> TRUE])
                  @@ (3 :> [facility |-> 1, name |-> <<"W", "e", "s", "t">>,
                            is_active |-> TRUE])
    /\ test_types = <<>>
    /\ tests = <<>>
    /\ branch_technicians = {[id |-> 1, user |-> "tech", branch |-> 1],
                             [id |-> 2, user |-> "adm_b", branch |-> 2]}
    /\ patients = <<>>
    /\ referrals = <<>>
    /\ referral_tests = <<>>
    /\ now = 0
    /\ last = NoResponse
    /\ procs = [p \in Procs |-> IdleProc]

\* the forms submitted: no facility or one of the two; no branch, branches
\* of facility 1, the branch of facility 2, branches of both
AdminChangeUserStep ==
    \E user \in {"tech", "dr_a"}, facility \in {<<>>, <<1>>, <<2>>},
       branch_ids \in {{}, {1}, {3}, {1, 3}, {2}, {1, 2}}, commit \in BOOLEAN :
        AdminChangeUser(user, facility, branch_ids, commit)

AdminAddUserStep ==
    \E full_name \in {<<"A", "l">>}, phone_number \in {"0209", "0210", "0203"},
       facility \in {<<>>, <<1>>}, make_facility_admin \in BOOLEAN,
       branch_ids \in {{}, {1, 3}, {1, 2}} :
        AdminAddUser(full_name, phone_number, facility, make_facility_admin, branch_ids)

NextAdmin ==
    \/ AdminChangeUserStep
    \/ AdminAddUserStep

SpecAdmin == InitAdmin /\ [][NextAdmin]_vars

\* the branches the user of the form is a BranchTechnician of afterwards
BranchesAfter ==
    {bt.branch : bt \in {x \in branch_technicians' : x.user = last'.request.user}}

\* a submitted branch is a branch of another facility than the selected one
ForeignBranchSubmitted ==
    /\ last'.request.facility # <<>>
    /\ \E b \in last'.request.branches : branches[b].facility # last'.request.facility[1]

\* saving the change form with a facility selected leaves the user with
\* exactly the submitted branches, all of the selected facility
ChangeFormReplaces ==
    (/\ last'.op = "user_change_form"
     /\ last'.request.facility # <<>>
     /\ ~ForeignBranchSubmitted)
        => /\ last'.detail = ""
           /\ BranchesAfter = last'.request.branches
           /\ \A b \in BranchesAfter :
                branches[b].facility = last'.request.facility[1]

\* a form with a branch of another facility is invalid and changes nothing
ForeignBranchRefused ==
    (/\ last'.op \in {"user_change_form", "user_add_form"}
     /\ ForeignBranchSubmitted)
        => /\ last'.detail # ""
           /\ UNCHANGED <<users, facilities, branch_technicians>>

\* C23: saving the user-change form with a facility selected replaces the
\* user's branch assignments by exactly the submitted branches (none when
\* none is submitted), all of the selected facility; a submitted branch of
\* another facility makes the add form and the change form invalid and
\* changes nothing.
C23_ChangeFormReplacesBranches ==
    [][ChangeFormReplaces /\ ForeignBranchRefused]_vars

\* the same for form.save() alone, which saves with commit=True
ChangeFormReplacesOnCommit ==
    [][(last'.op = "user_change_form" /\ last'.request.commit => ChangeFormReplaces)
       /\ ForeignBranchRefused]_vars

====
